---- MODULE Spec2Model ----
(***************************************************************************)
(* Nitro compiler front end (Mirrrek/nitrogen): the tokenizer              *)
(* (src/src/stages/tokenizer.ts) and the parser                            *)
(* (src/src/stages/parser.ts, lines 1-1193) as state machines.             *)
(*                                                                         *)
(* Source text is a sequence of one-character strings; "BEL" stands for    *)
(* U+0007 and "U+00E9" for a character with code >= 0x80.                  *)
(***************************************************************************)
EXTENDS Integers, Sequences, FiniteSets, TLC

VARIABLES
    source,      \* tokenize: the `input` argument as passed by the caller
    input,       \* tokenize: the local `input`, the text not yet consumed
    line,        \* tokenize: `line`
    column,      \* tokenize: `column`
    tokens,      \* tokenize: `tokens`
    warnings,    \* diagnostics logged by tokenize through log('WARN', ...)
    lexState,    \* "running", "returned" or "thrown"
    lexError,    \* the InputError raised by tokenize, NoError before
    spans,       \* history: what each loop iteration consumed, in order
    pTokens,     \* parse: the local `tokens`, the tokens not yet consumed
    pSource,     \* parse: the `tokens` argument as passed by the caller
    statements,  \* parse: `statements`
    parseState,  \* "idle", "running", "returned" or "thrown"
    parseError,  \* the exception raised by parse, NoError before
    call,        \* which entry point of the parser module the run exercises
    callPattern, \* matchPattern: the `pattern` argument
    callResult,  \* result of the parseExpression / matchPattern call
    stackOffset, \* generate: `state.stackOffset`
    outputBuffer,\* generate: the chunks written to `state.outputBuffer`
    variables,   \* generate: `variables` of the outermost generateStatements
    genIndex,    \* generate: index of the outermost forEach
    genLogged,   \* diagnostics logged by generate through log('WARN', ...)
    genState,    \* "idle", "running", "returned" or "thrown"
    genError,    \* the exception raised by generate, NoError before
    assembly,    \* the artifact returned by generate, Null before
    argv,        \* driver: `process.argv`
    inputFile,   \* driver: what the input path names on disk
    outputFile,  \* driver: the content of the output file, Null if unwritten
    mainState,   \* driver: the statement of main() that runs next
    logged,      \* driver: diagnostics logged by main and the handler
    data,        \* DynamicBuffer: `data`, the backing bytes
    size,        \* DynamicBuffer: `size`
    written      \* history: the buffers passed to write, in call order

vars == <<source, input, line, column, tokens, warnings, lexState, lexError,
          spans, pTokens, pSource, statements, parseState, parseError, call,
          callPattern, callResult, stackOffset, outputBuffer, variables,
          genIndex, genLogged, genState, genError, assembly, argv, inputFile,
          outputFile, mainState, logged, data, size, written>>

lexVars == <<source, input, line, column, tokens, warnings, lexState,
             lexError, spans>>

parseVars == <<pTokens, pSource, statements, parseState, parseError, call,
               callPattern, callResult>>

genVars == <<stackOffset, outputBuffer, variables, genIndex, genLogged,
             genState, genError, assembly>>

mainVars == <<argv, inputFile, outputFile, mainState, logged>>

bufferVars == <<data, size, written>>

(***************************************************************************)
(* Bounds                                                                  *)
(***************************************************************************)
MaxLen == 3

(***************************************************************************)
(* Sequence helpers: slice and startsWith of strings and arrays            *)
(***************************************************************************)
\* s.slice(n)
Drop(s, n) == IF n >= Len(s) THEN <<>> ELSE SubSeq(s, n + 1, Len(s))

\* s.slice(0, n)
Take(s, n) == IF n >= Len(s) THEN s ELSE SubSeq(s, 1, n)

StartsWith(s, p) == Len(s) >= Len(p) /\ SubSeq(s, 1, Len(p)) = p

\* length of the longest prefix of s whose characters all lie in class C
RunLength(s, C) ==
    IF \E i \in 1..Len(s) : s[i] \notin C
    THEN (CHOOSE i \in 1..Len(s) :
              s[i] \notin C /\ \A j \in 1..(i - 1) : s[j] \in C) - 1
    ELSE Len(s)

\* length of the longest prefix of s none of whose characters lies in C
RunLengthNot(s, C) ==
    IF \E i \in 1..Len(s) : s[i] \in C
    THEN (CHOOSE i \in 1..Len(s) :
              s[i] \in C /\ \A j \in 1..(i - 1) : s[j] \notin C) - 1
    ELSE Len(s)

RECURSIVE Str(_)
\* the JavaScript string made of the characters cs
Str(cs) == IF cs = <<>> THEN "" ELSE cs[1] \o Str(Tail(cs))

(***************************************************************************)
(* Character classes                                                       *)
(***************************************************************************)
LowerLetters == {"a", "b", "c", "d", "e", "f", "g", "h", "i", "j", "k", "l",
                 "m", "n", "o", "p", "q", "r", "s", "t", "u", "v", "w", "x",
                 "y", "z"}

UpperLetters == {"A", "B", "C", "D", "E", "F", "G", "H", "I", "J", "K", "L",
                 "M", "N", "O", "P", "Q", "R", "S", "T", "U", "V", "W", "X",
                 "Y", "Z"}

Digits == {"0", "1", "2", "3", "4", "5", "6", "7", "8", "9"}

HexDigits == Digits \cup {"a", "b", "c", "d", "e", "f",
                          "A", "B", "C", "D", "E", "F"}

BinaryDigits == {"0", "1"}

OctalDigits == {"0", "1", "2", "3", "4", "5", "6", "7"}

\* /[\x00-\x1F]/ restricted to the characters of the model
ControlCharacters == {"\t", "\n", "\r", "BEL"}

\* characters the regular expression `.` does not match
LineTerminators == {"\n", "\r"}

\* charCodeAt(0) >= 0x80
NonASCII == {"U+00E9"}

allowedIdentifierASCIICharacters ==
    LowerLetters \cup UpperLetters \cup Digits \cup {"_"}

(***************************************************************************)
(* tokenizer.ts: tables                                                    *)
(***************************************************************************)
symbols == << <<",">>, <<";">>, <<"=">>, <<"+">>, <<"-">>, <<"*">>, <<"/">>,
              <<"%">>, <<"|">>, <<"&">>, <<"=", "=">>, <<"!", "=">>, <<"<">>,
              <<"<", "=">>, <<">">>, <<">", "=">>, <<"(">>, <<")">> >>

keywords == {"const"}

\* [...symbols].sort((a, b) => b.length - a.length): stable, longest first
orderedSymbols ==
    SelectSeq(symbols, LAMBDA s : Len(s) = 2) \o
    SelectSeq(symbols, LAMBDA s : Len(s) = 1)

NoError == [type |-> "none"]

InputError(message, location) ==
    [type |-> "InputError", message |-> message, location |-> location]

(***************************************************************************)
(* tokenizer.ts: the regular expressions, as the length of match[0]        *)
(* (0 when the expression does not match; none of them matches "")         *)
(***************************************************************************)
\* /^[ \t]+/
MatchWhitespace(s) == RunLength(s, {" ", "\t"})

\* /^\r?\n/
MatchNewline(s) ==
    IF StartsWith(s, <<"\n">>) THEN 1
    ELSE IF StartsWith(s, <<"\r", "\n">>) THEN 2
    ELSE 0

\* /^\/\/.*\r?\n/
MatchLineComment(s) ==
    IF ~StartsWith(s, <<"/", "/">>) THEN 0
    ELSE LET k == RunLengthNot(Drop(s, 2), LineTerminators)
             after == Drop(s, 2 + k)
         IN  IF MatchNewline(after) = 0 THEN 0
             ELSE 2 + k + MatchNewline(after)

\* /^\/\*[\s\S]*?\*\//
MatchBlockComment(s) ==
    IF ~StartsWith(s, <<"/", "*">>) THEN 0
    ELSE IF \E i \in 3..(Len(s) - 1) : s[i] = "*" /\ s[i + 1] = "/"
         THEN (CHOOSE i \in 3..(Len(s) - 1) :
                   /\ s[i] = "*" /\ s[i + 1] = "/"
                   /\ \A j \in 3..(i - 1) : ~(s[j] = "*" /\ s[j + 1] = "/"))
              + 1
         ELSE 0

\* /^[\x00-\x1F]/
MatchControlCharacter(s) ==
    IF s # <<>> /\ s[1] \in ControlCharacters THEN 1 ELSE 0

\* /^0x[0-9a-fA-F]+/ ?? /^0b[01]+/ ?? /^0o[0-7]+/ ?? /^[0-9]+/
MatchPrefixed(s, prefix, digits) ==
    IF StartsWith(s, prefix) /\ RunLength(Drop(s, 2), digits) > 0
    THEN 2 + RunLength(Drop(s, 2), digits)
    ELSE 0

MatchInteger(s) ==
    IF MatchPrefixed(s, <<"0", "x">>, HexDigits) > 0
    THEN MatchPrefixed(s, <<"0", "x">>, HexDigits)
    ELSE IF MatchPrefixed(s, <<"0", "b">>, BinaryDigits) > 0
    THEN MatchPrefixed(s, <<"0", "b">>, BinaryDigits)
    ELSE IF MatchPrefixed(s, <<"0", "o">>, OctalDigits) > 0
    THEN MatchPrefixed(s, <<"0", "o">>, OctalDigits)
    ELSE RunLength(s, Digits)

\* /^[0-9]+\.[0-9]+/
MatchFloat(s) ==
    LET k == RunLength(s, Digits)
        m == RunLength(Drop(s, k + 1), Digits)
    IN  IF k > 0 /\ Len(s) > k /\ s[k + 1] = "." /\ m > 0
        THEN k + 1 + m
        ELSE 0

RECURSIVE StringBody(_, _)
\* (?:[^q\\]|\\.)* : number of characters the greedy repetition consumes
StringBody(s, q) ==
    IF s = <<>> THEN 0
    ELSE IF s[1] \notin {q, "\\"} THEN 1 + StringBody(Tail(s), q)
    ELSE IF s[1] = "\\" /\ Len(s) >= 2 /\ s[2] \notin LineTerminators
    THEN 2 + StringBody(Drop(s, 2), q)
    ELSE 0

\* /^q(?:[^q\\]|\\.)*q/ for the quote character q
MatchQuoted(s, q) ==
    IF ~StartsWith(s, <<q>>) THEN 0
    ELSE LET n == StringBody(Tail(s), q)
         IN  IF Len(s) >= n + 2 /\ s[n + 2] = q THEN n + 2 ELSE 0

\* /^'(?:[^'\\]|\\.)*'/ ?? /^"(?:[^"\\]|\\.)*"/
MatchString(s) ==
    IF MatchQuoted(s, "'") > 0 THEN MatchQuoted(s, "'")
    ELSE MatchQuoted(s, "\"")

(***************************************************************************)
(* tokenizer.ts: number conversion                                         *)
(***************************************************************************)
DigitValue(c) ==
    CASE c = "0" -> 0 [] c = "1" -> 1 [] c = "2" -> 2 [] c = "3" -> 3
      [] c = "4" -> 4 [] c = "5" -> 5 [] c = "6" -> 6 [] c = "7" -> 7
      [] c = "8" -> 8 [] c = "9" -> 9
      [] c \in {"a", "A"} -> 10 [] c \in {"b", "B"} -> 11
      [] c \in {"c", "C"} -> 12 [] c \in {"d", "D"} -> 13
      [] c \in {"e", "E"} -> 14 [] c \in {"f", "F"} -> 15

RECURSIVE ParseIntFrom(_, _, _)
ParseIntFrom(acc, digits, base) ==
    IF digits = <<>> THEN acc
    ELSE ParseIntFrom(acc * base + DigitValue(digits[1]), Tail(digits), base)

\* parseInt(digits, base) on a non-empty run of digits valid in that base
parseInt(digits, base) == ParseIntFrom(0, digits, base)

\* IntegerBase with the bases of the prefixes 0b and 0o exchanged
IntegerBase_Exchanged(m) ==
    IF Take(m, 2) = <<"0", "x">> THEN 16
    ELSE IF Take(m, 2) = <<"0", "b">> THEN 8
    ELSE IF Take(m, 2) = <<"0", "o">> THEN 2
    ELSE 10

\* switch (match[0].slice(0, 2))
IntegerBase(m) ==
    IF Take(m, 2) = <<"0", "x">> THEN 16
    ELSE IF Take(m, 2) = <<"0", "b">> THEN 2
    ELSE IF Take(m, 2) = <<"0", "o">> THEN 8
    ELSE 10

\* parseInt(base === 10 ? match[0] : match[0].slice(2), base)
IntegerValue(m) ==
    LET base == IntegerBase(m)
    IN  parseInt(IF base = 10 THEN m ELSE Drop(m, 2), base)

RECURSIVE Pow10(_)
Pow10(n) == IF n = 0 THEN 1 ELSE 10 * Pow10(n - 1)

RECURSIVE Reduce10(_, _)
Reduce10(num, den) ==
    IF den > 1 /\ num % 10 = 0 THEN Reduce10(num \div 10, den \div 10)
    ELSE [num |-> num, den |-> den]

\* parseFloat(match[0]) for digits '.' digits: the number num / den
parseFloat(m) ==
    LET k == RunLength(m, Digits)
        frac == Drop(m, k + 1)
    IN  Reduce10(parseInt(Take(m, k) \o frac, 10), Pow10(Len(frac)))

(***************************************************************************)
(* tokenizer.ts: the identifier loop (line 200)                            *)
(***************************************************************************)
\* [' ', '\t', '\r', '\n', '/', ...symbols, '\'', '"'].some(startsWith)
IdentifierStop(s) ==
    \/ \E c \in {" ", "\t", "\r", "\n", "/", "'", "\""} : StartsWith(s, <<c>>)
    \/ \E i \in 1..Len(symbols) : StartsWith(s, symbols[i])

\* the condition of the while loop that fills `buffer`
IdentifierContinues(s) ==
    /\ Len(s) > 0
    /\ ~IdentifierStop(s)
    /\ MatchControlCharacter(s) = 0
    /\ (s[1] \in NonASCII \/ s[1] \in allowedIdentifierASCIICharacters)

RECURSIVE IdentifierRun(_)
\* number of characters the loop moves from `input` to `buffer`
IdentifierRun(s) ==
    IF IdentifierContinues(s) THEN 1 + IdentifierRun(Tail(s)) ELSE 0

\* W-Snake: an underscore between two lowercase letters, not at an edge
IsSnakeCase(buffer) ==
    \E i \in 2..(Len(buffer) - 1) :
        /\ buffer[i] = "_"
        /\ buffer[i - 1] \in LowerLetters
        /\ buffer[i + 1] \in LowerLetters

\* W-DoubleQuotes: match[0].startsWith('"') && !match[0].includes("'")
IsCringeQuoted(m) == m[1] = "\"" /\ \A i \in 1..Len(m) : m[i] # "'"

\* the first symbol of orderedSymbols that `input` starts with, <<>> if none
FirstSymbol(s) ==
    IF \E i \in 1..Len(orderedSymbols) : StartsWith(s, orderedSymbols[i])
    THEN orderedSymbols[CHOOSE i \in 1..Len(orderedSymbols) :
             /\ StartsWith(s, orderedSymbols[i])
             /\ \A j \in 1..(i - 1) : ~StartsWith(s, orderedSymbols[j])]
    ELSE <<>>

\* SliceSymbol dropping one character whatever the length of the symbol
SliceSymbol_OneCharacter(s, symbol) == Drop(s, 1)

\* input.slice(symbol.length) after a symbol token has been pushed
SliceSymbol(s, symbol) == Drop(s, Len(symbol))

\* the integer rule applies: a match that is not followed by '.'
IntegerApplies(s) ==
    MatchInteger(s) > 0 /\ ~StartsWith(Drop(s, MatchInteger(s)), <<".">>)

\* which block of the loop body handles the head of `input`
Rule(s) ==
    IF MatchWhitespace(s) > 0 THEN "whitespace"
    ELSE IF MatchNewline(s) > 0 THEN "newline"
    ELSE IF MatchLineComment(s) > 0 THEN "line-comment"
    ELSE IF MatchBlockComment(s) > 0 THEN "block-comment"
    ELSE IF MatchControlCharacter(s) > 0 THEN "control"
    ELSE IF FirstSymbol(s) # <<>> THEN "symbol"
    ELSE IF IntegerApplies(s) THEN "integer"
    ELSE IF MatchFloat(s) > 0 THEN "float"
    ELSE IF MatchString(s) > 0 THEN "string"
    ELSE "identifier"

Location == [line |-> line, column |-> column]

Position == Len(source) - Len(input) + 1

Span(kind, len) == [kind |-> kind, start |-> Position, len |-> len]

Running(rule) == lexState = "running" /\ Len(input) > 0 /\ Rule(input) = rule

(***************************************************************************)
(* tokenizer.ts: one action per block of the loop body of tokenize         *)
(***************************************************************************)
\* a whitespace block that forgets to slice the input
SkipWhitespace_NoSlice ==
    /\ Running("whitespace")
    /\ LET n == MatchWhitespace(input)
       IN  /\ input' = input
           /\ column' = column + n
           /\ spans' = Append(spans, Span("whitespace", n))
    /\ UNCHANGED <<source, line, tokens, warnings, lexState, lexError>>
    /\ UNCHANGED parseVars
    /\ UNCHANGED <<genVars, mainVars, bufferVars>>

SkipWhitespace ==
    /\ Running("whitespace")
    /\ LET n == MatchWhitespace(input)
       IN  /\ input' = Drop(input, n)
           /\ column' = column + n
           /\ spans' = Append(spans, Span("whitespace", n))
    /\ UNCHANGED <<source, line, tokens, warnings, lexState, lexError>>
    /\ UNCHANGED parseVars
    /\ UNCHANGED <<genVars, mainVars, bufferVars>>

SkipNewline ==
    /\ Running("newline")
    /\ LET n == MatchNewline(input)
       IN  /\ input' = Drop(input, n)
           /\ spans' = Append(spans, Span("newline", n))
    /\ line' = line + 1
    /\ column' = 1
    /\ UNCHANGED <<source, tokens, warnings, lexState, lexError>>
    /\ UNCHANGED parseVars
    /\ UNCHANGED <<genVars, mainVars, bufferVars>>

SkipLineComment ==
    /\ Running("line-comment")
    /\ LET n == MatchLineComment(input)
       IN  /\ input' = Drop(input, n)
           /\ spans' = Append(spans, Span("comment", n))
    /\ line' = line + 1
    /\ column' = 1
    /\ UNCHANGED <<source, tokens, warnings, lexState, lexError>>
    /\ UNCHANGED parseVars
    /\ UNCHANGED <<genVars, mainVars, bufferVars>>

SkipBlockComment ==
    /\ Running("block-comment")
    /\ LET n == MatchBlockComment(input)
           m == Take(input, n)
           \* lines = match[0].split('\n')
           newlines == {i \in 1..n : m[i] = "\n"}
           lastLineLength ==
               IF newlines = {} THEN n
               ELSE n - (CHOOSE i \in newlines : \A j \in newlines : j <= i)
       IN  /\ input' = Drop(input, n)
           /\ line' = line + Cardinality(newlines)
           /\ column' = IF newlines = {} THEN column + lastLineLength
                        ELSE 1 + lastLineLength
           /\ spans' = Append(spans, Span("comment", n))
    /\ UNCHANGED <<source, tokens, warnings, lexState, lexError>>
    /\ UNCHANGED parseVars
    /\ UNCHANGED <<genVars, mainVars, bufferVars>>

ThrowControlCharacter ==
    /\ Running("control")
    /\ lexState' = "thrown"
    /\ lexError' = InputError("Unexpected control character", Location)
    /\ UNCHANGED <<source, input, line, column, tokens, warnings, spans>>
    /\ UNCHANGED parseVars
    /\ UNCHANGED <<genVars, mainVars, bufferVars>>

MatchSymbols ==
    /\ Running("symbol")
    /\ LET symbol == FirstSymbol(input)
       IN  /\ tokens' = Append(tokens, [type |-> "symbol",
                                        value |-> Str(symbol),
                                        location |-> Location])
           /\ input' = SliceSymbol(input, symbol)
           /\ column' = column + Len(symbol)
           /\ spans' = Append(spans, Span("token", Len(symbol)))
    /\ UNCHANGED <<source, line, warnings, lexState, lexError>>
    /\ UNCHANGED parseVars
    /\ UNCHANGED <<genVars, mainVars, bufferVars>>

MatchIntegerLiterals ==
    /\ Running("integer")
    /\ LET n == MatchInteger(input)
       IN  /\ tokens' = Append(tokens, [type |-> "integer-literal",
                                        value |-> IntegerValue(Take(input, n)),
                                        location |-> Location])
           /\ input' = Drop(input, n)
           /\ column' = column + n
           /\ spans' = Append(spans, Span("token", n))
    /\ UNCHANGED <<source, line, warnings, lexState, lexError>>
    /\ UNCHANGED parseVars
    /\ UNCHANGED <<genVars, mainVars, bufferVars>>

MatchFloatLiterals ==
    /\ Running("float")
    /\ LET n == MatchFloat(input)
       IN  /\ tokens' = Append(tokens, [type |-> "float-literal",
                                        value |-> parseFloat(Take(input, n)),
                                        location |-> Location])
           /\ input' = Drop(input, n)
           /\ column' = column + n
           /\ spans' = Append(spans, Span("token", n))
    /\ UNCHANGED <<source, line, warnings, lexState, lexError>>
    /\ UNCHANGED parseVars
    /\ UNCHANGED <<genVars, mainVars, bufferVars>>

MatchStringLiterals ==
    /\ Running("string")
    /\ LET n == MatchString(input)
           m == Take(input, n)
       IN  /\ warnings' = IF IsCringeQuoted(m)
                          THEN Append(warnings,
                                      [message |-> "Double quotes are cringe",
                                       location |-> Location])
                          ELSE warnings
           /\ tokens' = Append(tokens, [type |-> "string-literal",
                                        value |-> Str(SubSeq(m, 2, n - 1)),
                                        location |-> Location])
           /\ input' = Drop(input, n)
           /\ column' = column + n
           /\ spans' = Append(spans, Span("token", n))
    /\ UNCHANGED <<source, line, lexState, lexError>>
    /\ UNCHANGED parseVars
    /\ UNCHANGED <<genVars, mainVars, bufferVars>>

MatchKeywordsAndIdentifiers ==
    /\ Running("identifier")
    /\ LET n == IdentifierRun(input)
           buffer == Take(input, n)
       IN  IF n = 0
           THEN /\ lexState' = "thrown"
                /\ lexError' = InputError("Unexpected character", Location)
                /\ UNCHANGED <<input, column, tokens, warnings, spans>>
           ELSE /\ input' = Drop(input, n)
                /\ IF Str(buffer) \in keywords
                   THEN /\ tokens' = Append(tokens, [type |-> "keyword",
                                                     value |-> Str(buffer),
                                                     location |-> Location])
                        /\ UNCHANGED warnings
                   ELSE /\ warnings' =
                               IF IsSnakeCase(buffer)
                               THEN Append(warnings,
                                           [message |-> "Snake case is cringe",
                                            location |-> Location])
                               ELSE warnings
                        /\ tokens' = Append(tokens, [type |-> "identifier",
                                                     value |-> Str(buffer),
                                                     location |-> Location])
                /\ column' = column + n
                /\ spans' = Append(spans, Span("token", n))
                /\ UNCHANGED <<lexState, lexError>>
    /\ UNCHANGED <<source, line>>
    /\ UNCHANGED parseVars
    /\ UNCHANGED <<genVars, mainVars, bufferVars>>

\* the loop condition input.length > 0 fails: return tokens
ReturnTokens ==
    /\ lexState = "running"
    /\ Len(input) = 0
    /\ lexState' = "returned"
    /\ UNCHANGED <<source, input, line, column, tokens, warnings, lexError,
                   spans>>
    /\ UNCHANGED parseVars
    /\ UNCHANGED <<genVars, mainVars, bufferVars>>

(***************************************************************************)
(* parser.ts: tables                                                       *)
(***************************************************************************)
\* binaryOperators, in the order of the object literal (Object.entries)
binaryOperators ==
    << [type |-> "addition", symbol |-> "+"],
       [type |-> "subtraction", symbol |-> "-"],
       [type |-> "multiplication", symbol |-> "*"],
       [type |-> "division", symbol |-> "/"],
       [type |-> "modulo", symbol |-> "%"],
       [type |-> "bitwise-or", symbol |-> "|"],
       [type |-> "bitwise-and", symbol |-> "&"],
       [type |-> "equality", symbol |-> "=="],
       [type |-> "inequality", symbol |-> "!="],
       [type |-> "less-than", symbol |-> "<"],
       [type |-> "less-than-or-equal", symbol |-> "<="],
       [type |-> "greater-than", symbol |-> ">"],
       [type |-> "greater-than-or-equal", symbol |-> ">="] >>

BinaryExpressionTypes == {binaryOperators[i].type : i \in 1..Len(binaryOperators)}

binaryOperatorPrecedence(type) ==
    CASE type \in {"equality", "inequality", "less-than", "less-than-or-equal",
                   "greater-than", "greater-than-or-equal"} -> 0
      [] type = "bitwise-or" -> 1
      [] type = "bitwise-and" -> 2
      [] type \in {"addition", "subtraction"} -> 3
      [] type \in {"multiplication", "division", "modulo"} -> 4

\* binaryOperatorAssociativity with every operator right-associative
binaryOperatorAssociativity_Right(type) ==
    CASE type \in BinaryExpressionTypes -> "right"

binaryOperatorAssociativity(type) ==
    CASE type \in BinaryExpressionTypes -> "left"

\* Object.values(binaryOperators).includes(value)
IsBinaryOperator(value) ==
    \E i \in 1..Len(binaryOperators) : binaryOperators[i].symbol = value

\* Object.entries(binaryOperators).find(([key, value]) => value === v)![0]
BinaryOperatorType(value) ==
    binaryOperators[CHOOSE i \in 1..Len(binaryOperators) :
        /\ binaryOperators[i].symbol = value
        /\ \A j \in 1..(i - 1) : binaryOperators[j].symbol # value].type

(***************************************************************************)
(* parser.ts: patterns and results                                         *)
(***************************************************************************)
Null == [type |-> "null"]

\* the TypeError of reading a property of undefined (tokens[i].location past
\* the end of the array)
TypeError == [type |-> "TypeError"]

\* { type, value }
Lit(type, value) ==
    [type |-> type, hasValue |-> TRUE, value |-> value, optional |-> FALSE]

\* { type }: a token of that type with any value, or a placeholder
OfType(type) ==
    [type |-> type, hasValue |-> FALSE, value |-> "", optional |-> FALSE]

\* { ..., optional: true }
Opt(p) == [p EXCEPT !.optional = TRUE]

\* isToken: 'type' in pattern && 'value' in pattern
isToken(p) == p.hasValue

Semicolon == Lit("symbol", ";")

\* [match, tokenIndex]
Matched(match, count) == [kind |-> "match", match |-> match, count |-> count]

\* [null, 0]; cause, progress and at record why and where matchPattern gave
\* up: cause "mismatch" (a literal met another token) or "end" (no token
\* left), progress whether a recursive placeholder of the pattern had
\* succeeded, at the value of tokenIndex
NoMatch(cause, progress, at) ==
    [kind |-> "null", count |-> 0, cause |-> cause, progress |-> progress,
     at |-> at]

\* throw error out of matchPattern; cause "placeholder" when the error was
\* raised while a placeholder of the pattern was being parsed
Throw(error, cause, progress) ==
    [kind |-> "throw", error |-> error, cause |-> cause,
     progress |-> progress]

\* throw error, outside matchPattern
Raise(error) == [kind |-> "throw", error |-> error]

\* [null, 0] of parsePrimitiveStatement and parseStatement
NoStatement == [kind |-> "null", count |-> 0]

\* [node, tokenCount]
Ok(node, count) == [kind |-> "ok", node |-> node, count |-> count]

\* tokens[i].location for a 0-based index i that may be past the end
ErrorAt(message, tokenList, i) ==
    IF i < Len(tokenList)
    THEN InputError(message, tokenList[i + 1].location)
    ELSE TypeError

\* the patterns of parsePrimitiveStatement, in the order they are tried
PrimitiveStatementPatterns(terminator) ==
    << <<Opt(Lit("keyword", "const")), OfType("identifier"), OfType("identifier"),
         terminator>>,
       <<Opt(Lit("keyword", "const")), OfType("identifier"), OfType("identifier"),
         Lit("symbol", "="), OfType("expression"), terminator>>,
       <<OfType("identifier"), Lit("symbol", "="), OfType("expression"),
         terminator>>,
       <<OfType("identifier"), Lit("symbol", "++"), terminator>>,
       <<OfType("identifier"), Lit("symbol", "--"), terminator>>,
       <<OfType("identifier"), Lit("symbol", "("), OfType("arguments"),
         Lit("symbol", ")"), terminator>> >>

BuildPrimitiveStatement(i, m) ==
    CASE i = 1 -> [type |-> "declaration",
                   typeIdentifier |-> m[2].value,
                   variableIdentifier |-> m[3].value,
                   const |-> (m[1] # Null),
                   location |-> m[3].location]
      [] i = 2 -> [type |-> "declaration-with-assignment",
                   typeIdentifier |-> m[2].value,
                   variableIdentifier |-> m[3].value,
                   const |-> (m[1] # Null),
                   assignment |-> m[5],
                   location |-> m[3].location]
      [] i = 3 -> [type |-> "assignment",
                   variableIdentifier |-> m[1].value,
                   assignment |-> m[3],
                   location |-> m[1].location]
      [] i = 4 -> [type |-> "increment",
                   variableIdentifier |-> m[1].value,
                   location |-> m[1].location]
      [] i = 5 -> [type |-> "decrement",
                   variableIdentifier |-> m[1].value,
                   location |-> m[1].location]
      [] i = 6 -> [type |-> "function-call",
                   functionIdentifier |-> m[1].value,
                   arguments |-> m[3],
                   location |-> m[1].location]

ScopePattern ==
    <<Lit("symbol", "{"), OfType("statements"), Lit("symbol", "}")>>

IfPattern ==
    <<Lit("keyword", "if"), Lit("symbol", "("), OfType("expression"),
      Lit("symbol", ")"), Lit("symbol", "{"), OfType("statements"),
      Lit("symbol", "}")>>

ElseIfPattern ==
    <<Lit("keyword", "else"), Lit("keyword", "if"), Lit("symbol", "("),
      OfType("expression"), Lit("symbol", ")"), Lit("symbol", "{"),
      OfType("statements"), Lit("symbol", "}")>>

ElsePattern ==
    <<Lit("keyword", "else"), Lit("symbol", "{"), OfType("statements"),
      Lit("symbol", "}")>>

WhilePattern ==
    <<Lit("keyword", "while"), Lit("symbol", "("), OfType("expression"),
      Lit("symbol", ")"), Lit("symbol", "{"), OfType("statements"),
      Lit("symbol", "}")>>

DoWhilePattern ==
    <<Lit("keyword", "do"), Lit("symbol", "{"), OfType("statements"),
      Lit("symbol", "}"), Lit("keyword", "while"), Lit("symbol", "("),
      OfType("expression"), Lit("symbol", ")"), Lit("symbol", ";")>>

ForPattern ==
    <<Lit("keyword", "for"), Lit("symbol", "("), OfType("primitive-statement"),
      Lit("symbol", ";"), OfType("expression"), Lit("symbol", ";"),
      OfType("primitive-statement"), Lit("symbol", ")"), Lit("symbol", "{"),
      OfType("statements"), Lit("symbol", "}")>>

BreakPattern == <<Lit("keyword", "break"), Lit("symbol", ";")>>

FunctionDeclarationPattern ==
    <<OfType("identifier"), OfType("identifier"), Lit("symbol", "("),
      OfType("parameters"), Lit("symbol", ")"), Lit("symbol", "{"),
      OfType("statements"), Lit("symbol", "}")>>

ReturnPattern ==
    <<Lit("keyword", "return"), Opt(OfType("expression")), Lit("symbol", ";")>>

ParameterPattern == <<OfType("identifier"), OfType("identifier")>>

\* the patterns of parsePrimitiveExpression, in the order they are tried
PrimitiveExpressionPatterns ==
    << <<Opt(Lit("symbol", "-")), OfType("integer-literal")>>,
       <<Opt(Lit("symbol", "-")), OfType("float-literal")>>,
       <<OfType("string-literal")>>,
       <<OfType("identifier"), Lit("symbol", "("), OfType("arguments"),
         Lit("symbol", ")")>>,
       <<OfType("identifier"), Lit("symbol", "++")>>,
       <<OfType("identifier"), Lit("symbol", "--")>>,
       <<OfType("identifier")>>,
       <<Lit("symbol", "("), OfType("expression"), Lit("symbol", ")")>> >>

BuildPrimitiveExpression(i, m) ==
    CASE i = 1 -> [type |-> "integer-literal",
                   value |-> m[2].value * (IF m[1] = Null THEN 1 ELSE -1),
                   location |-> m[2].location]
      [] i = 2 -> [type |-> "float-literal",
                   value |-> [num |-> m[2].value.num *
                                      (IF m[1] = Null THEN 1 ELSE -1),
                              den |-> m[2].value.den],
                   location |-> m[2].location]
      [] i = 3 -> [type |-> "string-literal",
                   value |-> m[1].value,
                   location |-> m[1].location]
      [] i = 4 -> [type |-> "function-call",
                   functionIdentifier |-> m[1].value,
                   arguments |-> m[3],
                   location |-> m[1].location]
      [] i = 5 -> [type |-> "increment",
                   identifier |-> m[1].value,
                   location |-> m[1].location]
      [] i = 6 -> [type |-> "decrement",
                   identifier |-> m[1].value,
                   location |-> m[1].location]
      [] i = 7 -> [type |-> "variable",
                   identifier |-> m[1].value,
                   location |-> m[1].location]
      [] i = 8 -> [type |-> "sub-expression",
                   expression |-> m[2],
                   location |-> m[1].location]

(***************************************************************************)
(* parser.ts: the recursive descent, as operators on the token array.      *)
(* Every function returns Matched / Ok, NoMatch or Throw; a Throw result   *)
(* is passed on unchanged where the source has no try block.               *)
(***************************************************************************)
\* The functions of the parser call one another recursively.  Each function
\* F of the source is modelled by FBody; the operator F itself only passes
\* its arguments to Call, which runs the body of the function named.
RECURSIVE Call(_)

matchPattern(tokenList, pattern) ==
    Call([fn |-> "matchPattern", tokenList |-> tokenList, pattern |-> pattern])

MatchFrom(tokenList, pattern, patternIndex, tokenIndex, throwOnError, progress, match) ==
    Call([fn |-> "MatchFrom", tokenList |-> tokenList, pattern |-> pattern,
          patternIndex |-> patternIndex, tokenIndex |-> tokenIndex,
          throwOnError |-> throwOnError, progress |-> progress,
          match |-> match])

ParametersLoop(tokenList, tokenIndex, parameters) ==
    Call([fn |-> "ParametersLoop", tokenList |-> tokenList,
          tokenIndex |-> tokenIndex, parameters |-> parameters])

ArgumentsLoop(tokenList, tokenIndex, expressions) ==
    Call([fn |-> "ArgumentsLoop", tokenList |-> tokenList,
          tokenIndex |-> tokenIndex, expressions |-> expressions])

StatementsLoop(tokenList, tokenIndex, list) ==
    Call([fn |-> "StatementsLoop", tokenList |-> tokenList,
          tokenIndex |-> tokenIndex, list |-> list])

parsePrimitiveStatement(tokenList, terminator) ==
    Call([fn |-> "parsePrimitiveStatement", tokenList |-> tokenList,
          terminator |-> terminator])

parseStatement(tokenList, terminator) ==
    Call([fn |-> "parseStatement", tokenList |-> tokenList,
          terminator |-> terminator])

ElseIfLoop(tokenList, totalTokenCount, blocks) ==
    Call([fn |-> "ElseIfLoop", tokenList |-> tokenList,
          totalTokenCount |-> totalTokenCount, blocks |-> blocks])

ParseIf(tokenList) ==
    Call([fn |-> "ParseIf", tokenList |-> tokenList])

parseExpression(tokenList) ==
    Call([fn |-> "parseExpression", tokenList |-> tokenList])

parseBinaryExpression(tokenList, precedence) ==
    Call([fn |-> "parseBinaryExpression", tokenList |-> tokenList,
          precedence |-> precedence])

BinaryLoop(tokenList, precedence, result, tokenCount) ==
    Call([fn |-> "BinaryLoop", tokenList |-> tokenList,
          precedence |-> precedence, result |-> result,
          tokenCount |-> tokenCount])

parsePrimitiveExpression(tokenList) ==
    Call([fn |-> "parsePrimitiveExpression", tokenList |-> tokenList])

\* the literal branch of matchPattern (line 1171): the token does not match
TokenMismatch(token, patternToken) ==
    \/ token.type # patternToken.type
    \/ (patternToken.hasValue /\ token.value # patternToken.value)

IsComma(token) == token.type = "symbol" /\ token.value = ","

\* MismatchResult that never raises
MismatchResult_Silent(token, throwOnError, progress, patternIndex, tokenIndex) ==
    [kind |-> "null", count |-> 0, cause |-> "mismatch",
     progress |-> progress, at |-> tokenIndex, patternIndex |-> patternIndex]

\* a non-optional literal met another token (lines 1177-1181);
\* patternIndex records which element of the pattern it was
MismatchResult(token, throwOnError, progress, patternIndex, tokenIndex) ==
    IF throwOnError
    THEN [kind |-> "throw",
          error |-> InputError("Unexpected token", token.location),
          cause |-> "mismatch", progress |-> progress,
          patternIndex |-> patternIndex]
    ELSE [kind |-> "null", count |-> 0, cause |-> "mismatch",
          progress |-> progress, at |-> tokenIndex,
          patternIndex |-> patternIndex]

\* the `parameters` placeholder after its first parameter (lines 1067-1086);
\* tokenIndex < tokens.length holds on entry
ParametersLoopBody(tokenList, tokenIndex, parameters) ==
    IF ~IsComma(tokenList[tokenIndex + 1])
    THEN [kind |-> "ok", list |-> parameters, index |-> tokenIndex]
    ELSE LET r == matchPattern(Drop(tokenList, tokenIndex + 1),
                               ParameterPattern)
         IN  IF r.kind = "null"
             THEN [kind |-> "throw",
                   error |-> ErrorAt("Invalid parameter", tokenList,
                                     tokenIndex + 1)]
             ELSE IF tokenIndex + 1 + r.count >= Len(tokenList)
             THEN [kind |-> "null", index |-> tokenIndex + 1 + r.count]
             ELSE ParametersLoop(tokenList, tokenIndex + 1 + r.count,
                      Append(parameters,
                             [typeIdentifier |-> r.match[1].value,
                              variableIdentifier |-> r.match[2].value,
                              location |-> r.match[2].location]))

\* the `arguments` placeholder after its first expression (lines 1113-1121)
ArgumentsLoopBody(tokenList, tokenIndex, expressions) ==
    IF ~IsComma(tokenList[tokenIndex + 1])
    THEN [kind |-> "ok", list |-> expressions, index |-> tokenIndex]
    ELSE LET r == parseExpression(Drop(tokenList, tokenIndex + 1))
         IN  IF r.kind = "throw"
             THEN [kind |-> "throw", error |-> r.error]
             ELSE IF tokenIndex + 1 + r.count >= Len(tokenList)
             THEN [kind |-> "null", index |-> tokenIndex + 1 + r.count]
             ELSE ArgumentsLoop(tokenList, tokenIndex + 1 + r.count,
                                Append(expressions, r.node))

\* the `statements` placeholder (lines 1131-1142)
StatementsLoopBody(tokenList, tokenIndex, list) ==
    LET r == parseStatement(Drop(tokenList, tokenIndex), Semicolon)
    IN  IF r.kind = "throw"
        THEN [kind |-> "throw", error |-> r.error]
        ELSE IF r.kind = "null"
        THEN [kind |-> "ok", list |-> list, index |-> tokenIndex]
        ELSE IF tokenIndex + r.count >= Len(tokenList)
        THEN [kind |-> "null", index |-> tokenIndex + r.count]
        ELSE StatementsLoop(tokenList, tokenIndex + r.count,
                            Append(list, r.node))

\* one iteration of the for loop of matchPattern, patternIndex 1-based and
\* tokenIndex 0-based as in the source
MatchFromBody(tokenList, pattern, patternIndex, tokenIndex, throwOnError, progress, match) ==
    IF patternIndex > Len(pattern) THEN Matched(match, tokenIndex)
    ELSE IF tokenIndex >= Len(tokenList)
    THEN NoMatch("end", progress, tokenIndex)
    ELSE
    LET token == tokenList[tokenIndex + 1]
        patternToken == pattern[patternIndex]
        rest == Drop(tokenList, tokenIndex)
    IN
    IF patternToken.type = "expression" THEN
        LET r == parseExpression(rest)
        IN  IF r.kind = "ok"
            THEN MatchFrom(tokenList, pattern, patternIndex + 1,
                           tokenIndex + r.count, TRUE, TRUE,
                           Append(match, r.node))
            ELSE IF r.error.type # "InputError" \/ ~patternToken.optional
            THEN Throw(r.error, "placeholder", progress)
            ELSE MatchFrom(tokenList, pattern, patternIndex + 1, tokenIndex,
                           TRUE, progress, Append(match, Null))
    ELSE IF patternToken.type = "parameters" THEN
        LET first == matchPattern(rest, ParameterPattern)
        IN  IF first.kind = "null"
            THEN MatchFrom(tokenList, pattern, patternIndex + 1, tokenIndex,
                           TRUE, TRUE, Append(match, <<>>))
            ELSE IF tokenIndex + first.count >= Len(tokenList)
            THEN NoMatch("end", progress, tokenIndex + first.count)
            ELSE LET l == ParametersLoop(tokenList, tokenIndex + first.count,
                              << [typeIdentifier |-> first.match[1].value,
                                  variableIdentifier |-> first.match[2].value,
                                  location |-> first.match[2].location] >>)
                 IN  IF l.kind = "throw"
                     THEN Throw(l.error, "placeholder", progress)
                     ELSE IF l.kind = "null"
                     THEN NoMatch("end", progress, l.index)
                     ELSE MatchFrom(tokenList, pattern, patternIndex + 1,
                                    l.index, TRUE, TRUE, Append(match, l.list))
    ELSE IF patternToken.type = "arguments" THEN
        LET first == parseExpression(rest)
        IN  IF first.kind = "throw"
            THEN IF first.error.type # "InputError"
                 THEN Throw(first.error, "placeholder", progress)
                 ELSE MatchFrom(tokenList, pattern, patternIndex + 1,
                                tokenIndex, TRUE, TRUE, Append(match, <<>>))
            ELSE IF tokenIndex + first.count >= Len(tokenList)
            THEN NoMatch("end", progress, tokenIndex + first.count)
            ELSE LET l == ArgumentsLoop(tokenList, tokenIndex + first.count,
                                        <<first.node>>)
                 IN  IF l.kind = "throw"
                     THEN Throw(l.error, "placeholder", progress)
                     ELSE IF l.kind = "null"
                     THEN NoMatch("end", progress, l.index)
                     ELSE MatchFrom(tokenList, pattern, patternIndex + 1,
                                    l.index, TRUE, TRUE, Append(match, l.list))
    ELSE IF patternToken.type = "statements" THEN
        LET l == StatementsLoop(tokenList, tokenIndex, <<>>)
        IN  IF l.kind = "throw" THEN Throw(l.error, "placeholder", progress)
            ELSE IF l.kind = "null" THEN NoMatch("end", progress, l.index)
            ELSE MatchFrom(tokenList, pattern, patternIndex + 1, l.index,
                           TRUE, TRUE, Append(match, l.list))
    ELSE IF patternToken.type = "primitive-statement" THEN
        IF patternIndex + 1 > Len(pattern)
        THEN Throw([type |-> "Error",
                    message |-> "No terminator following primitive statement pattern"],
                   "placeholder", progress)
        ELSE IF ~isToken(pattern[patternIndex + 1])
        THEN Throw([type |-> "Error",
                    message |-> "Invalid terminator following primitive statement pattern"],
                   "placeholder", progress)
        ELSE LET r == parsePrimitiveStatement(rest, pattern[patternIndex + 1])
             IN  IF r.kind = "throw"
                 THEN Throw(r.error, "placeholder", progress)
                 ELSE IF r.kind = "null"
                 THEN Throw(InputError("Invalid statement", token.location),
                            "placeholder", progress)
                 ELSE MatchFrom(tokenList, pattern, patternIndex + 1,
                                tokenIndex + r.count - 1, TRUE, TRUE,
                                Append(match, r.node))
    ELSE IF TokenMismatch(token, patternToken) THEN
        IF patternToken.optional
        THEN MatchFrom(tokenList, pattern, patternIndex + 1, tokenIndex,
                       throwOnError, progress, Append(match, Null))
        ELSE MismatchResult(token, throwOnError, progress, patternIndex,
                            tokenIndex)
    ELSE MatchFrom(tokenList, pattern, patternIndex + 1, tokenIndex + 1,
                   throwOnError, progress, Append(match, token))

matchPatternBody(tokenList, pattern) ==
    MatchFrom(tokenList, pattern, 1, 0, FALSE, FALSE, <<>>)

\* the alternatives of a function are tried in order; the first one whose
\* result is not [null, 0] decides: hits are the alternatives with such a
\* result, First(hits) the one the function reaches
First(hits) == CHOOSE i \in hits : \A j \in hits : i <= j

\* a primitive statement whose terminator is counted twice
parsePrimitiveStatementBody_CountsTwice(tokenList, terminator) ==
    LET patterns == PrimitiveStatementPatterns(terminator)
        hits == {i \in 1..Len(patterns) :
                     matchPattern(tokenList, patterns[i]).kind # "null"}
    IN  IF hits = {} THEN NoStatement
        ELSE LET r == matchPattern(tokenList, patterns[First(hits)])
             IN  IF r.kind = "throw" THEN r
                 ELSE Ok(BuildPrimitiveStatement(First(hits), r.match),
                         r.count + 1)

parsePrimitiveStatementBody(tokenList, terminator) ==
    LET patterns == PrimitiveStatementPatterns(terminator)
        hits == {i \in 1..Len(patterns) :
                     matchPattern(tokenList, patterns[i]).kind # "null"}
    IN  IF hits = {} THEN NoStatement
        ELSE LET r == matchPattern(tokenList, patterns[First(hits)])
             IN  IF r.kind = "throw" THEN r
                 ELSE Ok(BuildPrimitiveStatement(First(hits), r.match),
                         r.count)

\* ElseIfLoopBody keeping only the block of the last `else if`
ElseIfLoopBody_Overwrite(tokenList, totalTokenCount, blocks) ==
    LET r == matchPattern(Drop(tokenList, totalTokenCount), ElseIfPattern)
    IN  IF r.kind = "throw" THEN r
        ELSE IF r.kind = "null"
        THEN [kind |-> "ok", blocks |-> blocks, total |-> totalTokenCount]
        ELSE ElseIfLoop(tokenList, totalTokenCount + r.count,
                        << [condition |-> r.match[4],
                            statements |-> r.match[7]] >>)

\* the while (true) loop over `else if` blocks (lines 557-586)
ElseIfLoopBody(tokenList, totalTokenCount, blocks) ==
    LET r == matchPattern(Drop(tokenList, totalTokenCount), ElseIfPattern)
    IN  IF r.kind = "throw" THEN r
        ELSE IF r.kind = "null"
        THEN [kind |-> "ok", blocks |-> blocks, total |-> totalTokenCount]
        ELSE ElseIfLoop(tokenList, totalTokenCount + r.count,
                        Append(blocks, [condition |-> r.match[4],
                                        statements |-> r.match[7]]))

ParseIfBody(tokenList) ==
    LET r == matchPattern(tokenList, IfPattern)
    IN  IF r.kind # "match" THEN r
        ELSE
        LET l == ElseIfLoop(tokenList, r.count,
                            << [condition |-> r.match[3],
                                statements |-> r.match[6]] >>)
        IN  IF l.kind = "throw" THEN l
            ELSE
            LET e == matchPattern(Drop(tokenList, l.total), ElsePattern)
            IN  IF e.kind = "throw" THEN e
                ELSE Ok([type |-> "if",
                         blocks |-> l.blocks,
                         elseBlock |-> IF e.kind = "match"
                                       THEN [statements |-> e.match[3]]
                                       ELSE Null,
                         location |-> r.match[1].location],
                        IF e.kind = "match" THEN l.total + e.count
                        ELSE l.total)

\* the alternatives of parseStatement after the primitive statement and the
\* if statement, in the order they are tried
StatementPatterns ==
    <<ScopePattern, WhilePattern, DoWhilePattern, ForPattern, BreakPattern,
      FunctionDeclarationPattern, ReturnPattern>>

\* a for node that drops its initialization
BuildStatement_NoInitialization(pattern, m) ==
    CASE pattern = ScopePattern ->
             [type |-> "scope", statements |-> m[2],
              location |-> m[1].location]
      [] pattern = WhilePattern ->
             [type |-> "while", condition |-> m[3], statements |-> m[6],
              doWhile |-> FALSE, location |-> m[1].location]
      [] pattern = DoWhilePattern ->
             [type |-> "while", condition |-> m[7], statements |-> m[3],
              doWhile |-> TRUE, location |-> m[1].location]
      [] pattern = ForPattern ->
             [type |-> "for", initialization |-> Null, condition |-> m[5],
              action |-> m[7], statements |-> m[10],
              location |-> m[1].location]
      [] pattern = BreakPattern ->
             [type |-> "break", location |-> m[1].location]
      [] pattern = FunctionDeclarationPattern ->
             [type |-> "function-declaration",
              functionIdentifier |-> m[2].value, parameters |-> m[4],
              returnType |-> m[1].value, statements |-> m[7],
              location |-> m[2].location]
      [] pattern = ReturnPattern ->
             [type |-> "return", expression |-> m[2],
              location |-> m[1].location]

BuildStatement(pattern, m) ==
    CASE pattern = ScopePattern ->
             [type |-> "scope", statements |-> m[2],
              location |-> m[1].location]
      [] pattern = WhilePattern ->
             [type |-> "while", condition |-> m[3], statements |-> m[6],
              doWhile |-> FALSE, location |-> m[1].location]
      [] pattern = DoWhilePattern ->
             [type |-> "while", condition |-> m[7], statements |-> m[3],
              doWhile |-> TRUE, location |-> m[1].location]
      [] pattern = ForPattern ->
             [type |-> "for", initialization |-> m[3], condition |-> m[5],
              action |-> m[7], statements |-> m[10],
              location |-> m[1].location]
      [] pattern = BreakPattern ->
             [type |-> "break", location |-> m[1].location]
      [] pattern = FunctionDeclarationPattern ->
             [type |-> "function-declaration",
              functionIdentifier |-> m[2].value, parameters |-> m[4],
              returnType |-> m[1].value, statements |-> m[7],
              location |-> m[2].location]
      [] pattern = ReturnPattern ->
             [type |-> "return", expression |-> m[2],
              location |-> m[1].location]

\* alternative i of parseStatement: 1 primitive statement, 2 scope, 3 if,
\* 4 while, 5 do-while, 6 for, 7 break, 8 function declaration, 9 return
StatementAlternative(tokenList, terminator, i) ==
    IF i = 1 THEN parsePrimitiveStatement(tokenList, terminator)
    ELSE IF i = 3 THEN ParseIf(tokenList)
    ELSE LET pattern == StatementPatterns[IF i = 2 THEN 1 ELSE i - 2]
             r == matchPattern(tokenList, pattern)
         IN  IF r.kind = "match"
             THEN Ok(BuildStatement(pattern, r.match), r.count)
             ELSE r

parseStatementBody(tokenList, terminator) ==
    LET hits == {i \in 1..9 :
                     StatementAlternative(tokenList, terminator, i).kind
                         # "null"}
    IN  IF hits = {} THEN NoStatement
        ELSE StatementAlternative(tokenList, terminator, First(hits))

\* the while loop of parseBinaryExpression (lines 814-833)
BinaryLoopBody(tokenList, precedence, result, tokenCount) ==
    IF /\ Len(tokenList) > 0
       /\ tokenList[1].type = "symbol"
       /\ IsBinaryOperator(tokenList[1].value)
    THEN LET binaryOperatorType == BinaryOperatorType(tokenList[1].value)
         IN  IF binaryOperatorPrecedence(binaryOperatorType) < precedence
             THEN Ok(result, tokenCount)
             ELSE
             LET r == parseBinaryExpression(Tail(tokenList),
                          binaryOperatorPrecedence(binaryOperatorType) +
                          (IF binaryOperatorAssociativity(binaryOperatorType)
                              = "left" THEN 1 ELSE 0))
             IN  IF r.kind = "throw" THEN r
                 ELSE BinaryLoop(Drop(tokenList, 1 + r.count), precedence,
                                 [type |-> binaryOperatorType,
                                  left |-> result,
                                  right |-> r.node,
                                  location |-> result.location],
                                 tokenCount + 1 + r.count)
    ELSE Ok(result, tokenCount)

parseBinaryExpressionBody(tokenList, precedence) ==
    LET r == parsePrimitiveExpression(tokenList)
    IN  IF r.kind = "throw" THEN r
        ELSE BinaryLoop(Drop(tokenList, r.count), precedence, r.node, r.count)

parseExpressionBody(tokenList) == parseBinaryExpression(tokenList, 0)

parsePrimitiveExpressionBody(tokenList) ==
    LET patterns == PrimitiveExpressionPatterns
        hits == {i \in 1..Len(patterns) :
                     matchPattern(tokenList, patterns[i]).kind # "null"}
    IN  IF hits = {} THEN Raise(ErrorAt("Invalid expression", tokenList, 0))
        ELSE LET r == matchPattern(tokenList, patterns[First(hits)])
             IN  IF r.kind = "throw" THEN r
                 ELSE Ok(BuildPrimitiveExpression(First(hits), r.match),
                         r.count)

Call(f) ==
    CASE f.fn = "matchPattern" ->
             matchPatternBody(f.tokenList, f.pattern)
      [] f.fn = "MatchFrom" ->
             MatchFromBody(f.tokenList, f.pattern, f.patternIndex,
                           f.tokenIndex, f.throwOnError, f.progress, f.match)
      [] f.fn = "ParametersLoop" ->
             ParametersLoopBody(f.tokenList, f.tokenIndex, f.parameters)
      [] f.fn = "ArgumentsLoop" ->
             ArgumentsLoopBody(f.tokenList, f.tokenIndex, f.expressions)
      [] f.fn = "StatementsLoop" ->
             StatementsLoopBody(f.tokenList, f.tokenIndex, f.list)
      [] f.fn = "parsePrimitiveStatement" ->
             parsePrimitiveStatementBody(f.tokenList, f.terminator)
      [] f.fn = "parseStatement" ->
             parseStatementBody(f.tokenList, f.terminator)
      [] f.fn = "ElseIfLoop" ->
             ElseIfLoopBody(f.tokenList, f.totalTokenCount, f.blocks)
      [] f.fn = "ParseIf" ->
             ParseIfBody(f.tokenList)
      [] f.fn = "parseExpression" ->
             parseExpressionBody(f.tokenList)
      [] f.fn = "parseBinaryExpression" ->
             parseBinaryExpressionBody(f.tokenList, f.precedence)
      [] f.fn = "BinaryLoop" ->
             BinaryLoopBody(f.tokenList, f.precedence, f.result, f.tokenCount)
      [] f.fn = "parsePrimitiveExpression" ->
             parsePrimitiveExpressionBody(f.tokenList)

(***************************************************************************)
(* tokenize: the inputs of the model and the specification                 *)
(***************************************************************************)
Alphabet == {"a", "1", ".", "=", "/", "*", "'", "\n", " ", "BEL"}

\* source texts the examples of the documentation name, and texts that
\* exercise the rules the short texts over Alphabet cannot reach
Samples ==
    { <<"a", " ", "=", "=", " ", "b">>,
      <<"a", "+", "+">>,
      <<"a", "-", "-">>,
      <<"a", "<", "=", "b">>,
      <<"a", "!", "=", "b">>,
      <<"a", ">", "=", "b">>,
      <<"4", "2", ".">>,
      <<"4", "2", ".", ";">>,
      <<"4", "2", ".", "5">>,
      <<"4", "2", ".", "5", "0">>,
      <<"4", "2">>,
      <<"0", "x", "1", "F">>,
      <<"0", "b", "1", "0", "1", "0">>,
      <<"0", "o", "1", "7">>,
      <<"0", "x", "f", "f", ";">>,
      <<"0", "b", "1", "2">>,
      <<"0", "8">>,
      <<"i", "f">>,
      <<"e", "l", "s", "e">>,
      <<"w", "h", "i", "l", "e">>,
      <<"d", "o">>,
      <<"f", "o", "r">>,
      <<"b", "r", "e", "a", "k">>,
      <<"r", "e", "t", "u", "r", "n">>,
      <<"c", "o", "n", "s", "t">>,
      <<"c", "o", "n", "s", "t", "s">>,
      <<"c", "o", "n", "s", "t", " ", "i", "8", " ", "x", ";">>,
      <<"'", "\n", "'", "BEL">>,
      <<"'", "\n", "'", "a">>,
      <<"/", "*", "\n", "a", "*", "/", " ", "b">>,
      <<"a", "\n", " ", "BEL">>,
      <<"a", "\r", "\n", "\t", "\r", "b">>,
      <<"/", "*", "\n", "a", "*", "/", " ", "BEL">>,
      <<"/", "/", "a", "\r", "\n", "b">>,
      <<"/", "/", " ", "a">>,
      <<"a", "/", "*", "*", "/", "b">>,
      <<"\"", "h", "i", "\"">>,
      <<"\"", "'", "\"">>,
      <<"'", "\\", "'", "'">>,
      <<"a", "_", "b", " ", "_", "a", " ", "A", "_", "b">>,
      <<"U+00E9", "a", "{">>,
      <<"x", " ", "=", " ", "1", " ", "+", ";">> }

Inputs == UNION {[1..n -> Alphabet] : n \in 0..MaxLen}

\* no DynamicBuffer has been constructed
InitBufferIdle ==
    /\ data = <<>>
    /\ size = 0
    /\ written = <<>>

\* generate has not been called
InitGeneratorIdle ==
    /\ stackOffset = 0
    /\ outputBuffer = <<>>
    /\ variables = <<>>
    /\ genIndex = 1
    /\ genLogged = <<>>
    /\ genState = "idle"
    /\ genError = NoError
    /\ assembly = Null

\* the stage is called on its own, not by main()
InitNoDriver ==
    /\ argv = <<>>
    /\ inputFile = Null
    /\ outputFile = Null
    /\ mainState = "none"
    /\ logged = <<>>

InitParserIdle ==
    /\ pTokens = <<>>
    /\ pSource = <<>>
    /\ statements = <<>>
    /\ parseState = "idle"
    /\ parseError = NoError
    /\ call = "none"
    /\ callPattern = <<>>
    /\ callResult = [kind |-> "none"]

InitTokenize ==
    /\ source \in Inputs \cup Samples
    /\ input = source
    /\ line = 1
    /\ column = 1
    /\ tokens = <<>>
    /\ warnings = <<>>
    /\ lexState = "running"
    /\ lexError = NoError
    /\ spans = <<>>
    /\ InitParserIdle
    /\ InitGeneratorIdle
    /\ InitBufferIdle
    /\ InitNoDriver

NextTokenize ==
    \/ SkipWhitespace
    \/ SkipNewline
    \/ SkipLineComment
    \/ SkipBlockComment
    \/ ThrowControlCharacter
    \/ MatchSymbols
    \/ MatchIntegerLiterals
    \/ MatchFloatLiterals
    \/ MatchStringLiterals
    \/ MatchKeywordsAndIdentifiers
    \/ ReturnTokens

SpecTokenize == InitTokenize /\ [][NextTokenize]_vars

\* tokenize is synchronous code: its loop goes on until it returns or throws
SpecTokenizeFair == SpecTokenize /\ WF_vars(NextTokenize)

(***************************************************************************)
(* Properties of tokenize                                                  *)
(***************************************************************************)
\* the spans of the tokens, in order: TokenSpans[k] is the span of tokens[k]
TokenSpans == SelectSeq(spans, LAMBDA sp : sp.kind = "token")

SpanText(sp) == SubSeq(source, sp.start, sp.start + sp.len - 1)

\* the head of the input when the span was consumed
TextFrom(sp) == Drop(source, sp.start - 1)

\* the spans that contain position p of the source
Covering(p) ==
    {i \in 1..Len(spans) :
         spans[i].start <= p /\ p < spans[i].start + spans[i].len}

\* a span that produced no token is whitespace, a newline or a comment
IsSkippable(sp) ==
    LET text == SpanText(sp)
    IN  CASE sp.kind = "whitespace" ->
                 \A i \in 1..Len(text) : text[i] \in {" ", "\t"}
          [] sp.kind = "newline" -> text \in {<<"\n">>, <<"\r", "\n">>}
          [] sp.kind = "comment" ->
                 StartsWith(text, <<"/", "/">>) \/ StartsWith(text, <<"/", "*">>)
          [] OTHER -> FALSE

\* C1: tokenize either returns a token list in which every character of the
\* input that is not whitespace, a newline or part of a comment lies in the
\* span of exactly one token, or raises an InputError whose location has
\* line >= 1 and column >= 1; no error is raised in any other way.
C1_TotalOrFail ==
    /\ lexState = "returned" =>
           /\ lexError = NoError
           /\ Len(TokenSpans) = Len(tokens)
           /\ \A p \in 1..Len(source) :
                  /\ Cardinality(Covering(p)) = 1
                  /\ \A i \in Covering(p) :
                         spans[i].kind # "token" => IsSkippable(spans[i])
    /\ lexState = "thrown" =>
           /\ lexError.type = "InputError"
           /\ lexError.location.line >= 1
           /\ lexError.location.column >= 1
    /\ lexState = "running" => lexError = NoError

\* tokenize has returned two tokens and skipped a comment between them
C1_Witness ==
    /\ lexState = "returned"
    /\ Len(tokens) >= 2
    /\ \E i \in 1..Len(spans) : spans[i].kind = "comment"

ClaimedTwoCharacterSymbols ==
    {<<"=", "=">>, <<"!", "=">>, <<"<", "=">>, <<">", "=">>, <<"+", "+">>,
     <<"-", "-">>}

\* C2: wherever a token starts at `==`, `!=`, `<=`, `>=`, `++` or `--`, the
\* token is the symbol made of both characters.
C2_LongestSymbolFirst ==
    \A k \in 1..Len(TokenSpans) :
        LET head == Take(TextFrom(TokenSpans[k]), 2)
        IN  head \in ClaimedTwoCharacterSymbols =>
                /\ tokens[k].type = "symbol"
                /\ tokens[k].value = Str(head)

\* C3: where a token starts at digits followed by a dot that no digit
\* follows, the token is the integer literal of those digits and lexing
\* continues at the dot.
C3_TrailingDotIsInteger ==
    \A k \in 1..Len(TokenSpans) :
        LET rest == TextFrom(TokenSpans[k])
            d == RunLength(rest, Digits)
        IN  (/\ d > 0
             /\ StartsWith(Drop(rest, d), <<".">>)
             /\ RunLength(Drop(rest, d + 1), Digits) = 0) =>
                /\ tokens[k].type = "integer-literal"
                /\ tokens[k].value = parseInt(Take(rest, d), 10)
                /\ TokenSpans[k].len = d

ClaimedKeywords ==
    {"const", "if", "else", "while", "do", "for", "break", "return"}

\* C4: a token of the identifier/keyword rule is a keyword exactly when its
\* text is one of const, if, else, while, do, for, break, return.
C4_KeywordTable ==
    \A k \in 1..Len(tokens) :
        tokens[k].type \in {"keyword", "identifier"} =>
            (tokens[k].type = "keyword" <=> tokens[k].value \in ClaimedKeywords)

RECURSIVE Power(_, _)
Power(b, n) == IF n = 0 THEN 1 ELSE b * Power(b, n - 1)

RECURSIVE PlaceSum(_, _, _)
\* the sum of digit * base^place over the digits from position i on
PlaceSum(digits, base, i) ==
    IF i > Len(digits) THEN 0
    ELSE DigitValue(digits[i]) * Power(base, Len(digits) - i)
         + PlaceSum(digits, base, i + 1)

\* the value of an integer literal by its prefix
Decoded(text) ==
    IF StartsWith(text, <<"0", "x">>) THEN PlaceSum(Drop(text, 2), 16, 1)
    ELSE IF StartsWith(text, <<"0", "b">>) THEN PlaceSum(Drop(text, 2), 2, 1)
    ELSE IF StartsWith(text, <<"0", "o">>) THEN PlaceSum(Drop(text, 2), 8, 1)
    ELSE PlaceSum(text, 10, 1)

\* tokenize returns exactly one token for the text, of that type
OnlyToken(text, type) ==
    (lexState = "returned" /\ source = text) =>
        (Len(tokens) = 1 /\ tokens[1].type = type)

TrueLine(p) == 1 + Cardinality({i \in 1..(p - 1) : source[i] = "\n"})

\* 1 plus the number of characters between the last line feed before
\* position p, or the start of the input, and position p
TrueColumn(p) ==
    LET feeds == {i \in 1..(p - 1) : source[i] = "\n"}
    IN  IF feeds = {} THEN p
        ELSE p - (CHOOSE i \in feeds : \A j \in feeds : j <= i)

\* C6: the InputError 'Unexpected control character' is raised at a control
\* character at the head of the input, and its location is the 1-based line
\* and column of that character.
C6_ControlCharacterLocation ==
    (lexState = "thrown" /\ lexError.message = "Unexpected control character")
        => /\ source[Position] \in ControlCharacters
           /\ lexError.location = [line |-> TrueLine(Position),
                                   column |-> TrueColumn(Position)]

(***************************************************************************)
(* parse (parser.ts lines 327-340): one action per loop iteration          *)
(***************************************************************************)
ParseStatementStep ==
    /\ call = "parse"
    /\ parseState = "running"
    /\ Len(pTokens) > 0
    /\ LET r == parseStatement(pTokens, Semicolon)
       IN  IF r.kind = "throw"
           THEN /\ parseState' = "thrown"
                /\ parseError' = r.error
                /\ UNCHANGED <<pTokens, statements>>
           ELSE IF r.kind = "null"
           THEN /\ parseState' = "thrown"
                /\ parseError' = InputError("Invalid statement",
                                            pTokens[1].location)
                /\ UNCHANGED <<pTokens, statements>>
           ELSE /\ statements' = Append(statements, r.node)
                /\ pTokens' = Drop(pTokens, r.count)
                /\ UNCHANGED <<parseState, parseError>>
    /\ UNCHANGED <<pSource, call, callPattern, callResult>>
    /\ UNCHANGED lexVars
    /\ UNCHANGED <<genVars, mainVars, bufferVars>>

ParseReturn ==
    /\ call = "parse"
    /\ parseState = "running"
    /\ Len(pTokens) = 0
    /\ parseState' = "returned"
    /\ UNCHANGED <<pTokens, pSource, statements, parseError, call,
                   callPattern, callResult>>
    /\ UNCHANGED lexVars
    /\ UNCHANGED <<genVars, mainVars, bufferVars>>

\* a call of parseExpression on the whole token array
CallParseExpression ==
    /\ call = "parseExpression"
    /\ parseState = "running"
    /\ LET r == parseExpression(pSource)
       IN  /\ callResult' = r
           /\ parseState' = IF r.kind = "throw" THEN "thrown" ELSE "returned"
           /\ parseError' = IF r.kind = "throw" THEN r.error ELSE NoError
    /\ UNCHANGED <<pTokens, pSource, statements, call, callPattern>>
    /\ UNCHANGED lexVars
    /\ UNCHANGED <<genVars, mainVars, bufferVars>>

\* a call of matchPattern on the whole token array
CallMatchPattern ==
    /\ call = "matchPattern"
    /\ parseState = "running"
    /\ LET r == matchPattern(pSource, callPattern)
       IN  /\ callResult' = r
           /\ parseState' = IF r.kind = "throw" THEN "thrown" ELSE "returned"
           /\ parseError' = IF r.kind = "throw" THEN r.error ELSE NoError
    /\ UNCHANGED <<pTokens, pSource, statements, call, callPattern>>
    /\ UNCHANGED lexVars
    /\ UNCHANGED <<genVars, mainVars, bufferVars>>

(***************************************************************************)
(* parser: the token arrays of the model.  A token array is written as a   *)
(* sequence of words: a symbol, a keyword, a digit (an integer literal of  *)
(* that value), "1.5" (a float literal), "'s'" (a string literal) or any   *)
(* other word (an identifier).  Token i is located at line 1, column i.    *)
(***************************************************************************)
MaxTokens == 3

MaxOperators == 3

MaxElseIf == 2

SymbolWords == {",", ";", "=", "+", "-", "*", "/", "%", "|", "&", "==", "!=",
                "<", "<=", ">", ">=", "(", ")", "{", "}", "++", "--"}

KeywordWords == {"const", "if", "else", "while", "do", "for", "break",
                 "return"}

Token(word, i) ==
    LET location == [line |-> 1, column |-> i]
    IN  IF word \in SymbolWords
        THEN [type |-> "symbol", value |-> word, location |-> location]
        ELSE IF word \in KeywordWords
        THEN [type |-> "keyword", value |-> word, location |-> location]
        ELSE IF word \in Digits
        THEN [type |-> "integer-literal", value |-> DigitValue(word),
              location |-> location]
        ELSE IF word = "1.5"
        THEN [type |-> "float-literal", value |-> [num |-> 15, den |-> 10],
              location |-> location]
        ELSE IF word = "'s'"
        THEN [type |-> "string-literal", value |-> "s", location |-> location]
        ELSE [type |-> "identifier", value |-> word, location |-> location]

TokensOf(words) == [i \in 1..Len(words) |-> Token(words[i], i)]

WordsUpTo(n, W) == UNION {[1..k -> W] : k \in 0..n}

RECURSIVE Flatten(_)
Flatten(ss) == IF ss = <<>> THEN <<>> ELSE ss[1] \o Flatten(Tail(ss))

\* the integer literals 1, 2, ... joined by the operators ops, in order
ExpressionWords(ops) ==
    Flatten([i \in 1..(2 * Len(ops) + 1) |->
                IF i % 2 = 1 THEN <<CHOOSE d \in Digits :
                                       DigitValue(d) = (i + 1) \div 2>>
                ELSE <<ops[i \div 2]>>])

OperatorWords == {"==", "<", "|", "&", "+", "-", "*", "%"}

AllOperatorWords ==
    {binaryOperators[i].symbol : i \in 1..Len(binaryOperators)}

ExpressionSamples ==
    { <<"(", "1", "+", "2", ")", "*", "3">>,
      <<"1", "*", "(", "2", "+", "3", ")">>,
      <<"1", "-", "-", "2">>,
      <<"-", "1", "-", "2", "-", "3">>,
      <<"a", "++", "+", "b", "--">>,
      <<"f", "(", "1", ",", "2", ")", "+", "3">>,
      <<"1.5", "*", "'s'", "+", "a">>,
      <<"1", "+">>,
      <<"1", "+", "2", "*">>,
      <<"1", "+", ";">>,
      <<"f", "(", "1", ",">>,
      <<"1", ";">> }

ExpressionInputs ==
    {ExpressionWords(ops) : ops \in WordsUpTo(MaxOperators, OperatorWords)}
    \cup {ExpressionWords(ops) : ops \in WordsUpTo(1, AllOperatorWords)}
    \cup ExpressionSamples

StatementWords == {"x", "1", "=", ";", "+", "(", ")", "{", "}"}

Repeat(n, ws) == Flatten([i \in 1..n |-> ws])

\* if (c) { body } followed by n `else if (c) { body }` blocks and, when
\* withElse, by else { body }
IfChain(n, withElse, body) ==
    <<"if", "(", "c", ")", "{">> \o body \o <<"}">>
    \o Repeat(n, <<"else", "if", "(", "c", ")", "{">> \o body \o <<"}">>)
    \o (IF withElse THEN <<"else", "{">> \o body \o <<"}">> ELSE <<>>)

IfChainBodies == {<<>>, <<"x", "=", "1", ";">>}

IfChains ==
    {IfChain(n, e, b) : n \in 0..MaxElseIf, e \in BOOLEAN, b \in IfChainBodies}

StatementSamples ==
    { <<"x", "=", "1", "+">>,
      <<"x", "=", "1", "+", ";">>,
      <<"x", "=", "1", "+", "2", "*", "3", ";">>,
      <<"f", "(", "1", ",">>,
      <<"i32", "f", "(", "i32", "a", ",">>,
      <<"i32", "f", "(", "i32", "a", ",", "i32", "b", ")", "{", "return",
        "a", "+", "b", ";", "}">>,
      <<"i32", "f", "(", ")", "{", "return", ";", "}">>,
      <<"const", "i32", "x", "=", "1", ";", "i32", "y", ";">>,
      <<"x", "++", ";", "x", "--", ";">>,
      <<"foo", "(", ")", ";">>,
      <<"foo", "(", "1", ",", "x", ")", ";">>,
      <<"{", "i32", "x", "=", "1", ";", "}", "x", "=", "2", ";">>,
      <<"while", "(", "i", "<", "9", ")", "{", "i", "++", ";", "}">>,
      <<"do", "{", "i", "++", ";", "}", "while", "(", "i", "<", "9", ")",
        ";">>,
      <<"for", "(", "i32", "i", "=", "0", ";", "i", "<", "3", ";", "i",
        "++", ")", "{", "}">>,
      <<"for", "(", ";", ";", ")", "{", "}">>,
      <<"for", "(", "i", "=", "0", ";", ";", "i", "++", ")", "{", "}">>,
      <<"for", "(", "i", "=", "0", ";", "i", "<", "3", ";", ")", "{", "}">>,
      <<"for", "(", "i", "=", "0", ";", "i", "<", "3", ";", "i", "++", ")",
        "{", "x", "--", ";", "}", "x", "=", "1", ";">>,
      <<"do", "{", "}", "while", "(", "1", ")", ";", "{", "}", "x", "++", ";">>,
      <<"while", "(", "1", ")", "{", "break", ";", "}">>,
      <<"return", "}">>,
      <<"x", "=", "1">>,
      <<"x", "=", "1", "x">>,
      <<"if", "(", "c", ")", "{", "}", "else", "x">>,
      <<"if", "(", "c", ")", "{", "}", "else", "if", "x">>,
      <<"if", "(", "c", ")", "{", "if", "(", "c", ")", "{", "}", "else",
        "{", "}", "}">> }

ParseInputs ==
    WordsUpTo(MaxTokens, StatementWords) \cup IfChains \cup StatementSamples

\* every pattern the parser passes to matchPattern
MatchPatterns ==
    {PrimitiveStatementPatterns(t)[i] :
         t \in {Semicolon, Lit("symbol", ")")}, i \in 1..6}
    \cup {PrimitiveExpressionPatterns[i] :
              i \in 1..Len(PrimitiveExpressionPatterns)}
    \cup {StatementPatterns[i] : i \in 1..Len(StatementPatterns)}
    \cup {IfPattern, ElseIfPattern, ElsePattern, ParameterPattern}

MatchWords == {"x", "1", "=", ";", "(", ")"}

MatchSamples ==
    StatementSamples \cup
    { <<"return", "}">>, <<"return", ";">>, <<"return", "1", ";">>,
      <<"return", "1", "}">>, <<"{", "}", "x">>, <<"{", "x", "=", "1", ";">>,
      <<"x", "=", ";">>, <<"x", "(", "1", ",", "1", ")", "x">>,
      <<"x", "(", ")", ";">> }

MatchInputs == WordsUpTo(MaxTokens, MatchWords) \cup MatchSamples

InitTokenizerIdle ==
    /\ source = <<>>
    /\ input = <<>>
    /\ line = 1
    /\ column = 1
    /\ tokens = <<>>
    /\ warnings = <<>>
    /\ lexState = "idle"
    /\ lexError = NoError
    /\ spans = <<>>

InitParserCall(entry, inputs, patterns) ==
    /\ InitTokenizerIdle
    /\ InitGeneratorIdle
    /\ InitBufferIdle
    /\ InitNoDriver
    /\ call = entry
    /\ \E words \in inputs : pSource = TokensOf(words)
    /\ pTokens = pSource
    /\ callPattern \in patterns
    /\ statements = <<>>
    /\ parseState = "running"
    /\ parseError = NoError
    /\ callResult = [kind |-> "none"]

InitParse == InitParserCall("parse", ParseInputs, {<<>>})

NextParse == ParseStatementStep \/ ParseReturn

SpecParse == InitParse /\ [][NextParse]_vars

\* parse is synchronous code: its loop goes on until it returns or throws.
\* This is WF_vars(NextParse) with ENABLED <<NextParse>>_vars written out: an
\* iteration of the loop is possible exactly while parse is running
SpecParseFair ==
    /\ SpecParse
    /\ \/ []<><<NextParse>>_vars
       \/ []<>~(call = "parse" /\ parseState = "running")

InitExpression == InitParserCall("parseExpression", ExpressionInputs, {<<>>})

NextExpression == CallParseExpression

SpecExpression == InitExpression /\ [][NextExpression]_vars

InitMatch == InitParserCall("matchPattern", MatchInputs, MatchPatterns)

NextMatch == CallMatchPattern

SpecMatch == InitMatch /\ [][NextMatch]_vars

(***************************************************************************)
(* Properties of the parser                                                *)
(***************************************************************************)
ClaimedLevel(type) ==
    CASE type \in {"equality", "inequality", "less-than",
                   "less-than-or-equal", "greater-than",
                   "greater-than-or-equal"} -> 0
      [] type = "bitwise-or" -> 1
      [] type = "bitwise-and" -> 2
      [] type \in {"addition", "subtraction"} -> 3
      [] type \in {"multiplication", "division", "modulo"} -> 4

ClaimedOperator(symbol) ==
    CASE symbol = "==" -> "equality" [] symbol = "!=" -> "inequality"
      [] symbol = "<" -> "less-than" [] symbol = "<=" -> "less-than-or-equal"
      [] symbol = ">" -> "greater-than"
      [] symbol = ">=" -> "greater-than-or-equal"
      [] symbol = "|" -> "bitwise-or" [] symbol = "&" -> "bitwise-and"
      [] symbol = "+" -> "addition" [] symbol = "-" -> "subtraction"
      [] symbol = "*" -> "multiplication" [] symbol = "/" -> "division"
      [] symbol = "%" -> "modulo"

ClaimedOperatorSymbols ==
    {"==", "!=", "<", "<=", ">", ">=", "|", "&", "+", "-", "*", "/", "%"}

ClaimedOperatorTypes == {ClaimedOperator(o) : o \in ClaimedOperatorSymbols}

IsBinary(node) == node.type \in ClaimedOperatorTypes

\* the token array is primitive (operator primitive)*, the primitives being
\* integer literals
IsOperatorChain(tokenList) ==
    /\ Len(tokenList) % 2 = 1
    /\ \A i \in 1..Len(tokenList) :
           IF i % 2 = 1 THEN tokenList[i].type = "integer-literal"
           ELSE /\ tokenList[i].type = "symbol"
                /\ tokenList[i].value \in ClaimedOperatorSymbols

RECURSIVE InOrder(_)
\* the leaves (by the column of their token) and operators of a tree, from
\* left to right
InOrder(node) ==
    IF IsBinary(node)
    THEN InOrder(node.left) \o <<[operator |-> node.type]>>
         \o InOrder(node.right)
    ELSE <<[leaf |-> node.location.column]>>

RECURSIVE Grouped(_)
\* every right operand binds tighter than its operator and every left
\* operand at least as tight
Grouped(node) ==
    IsBinary(node) =>
        /\ Grouped(node.left)
        /\ Grouped(node.right)
        /\ IsBinary(node.right) =>
               ClaimedLevel(node.right.type) > ClaimedLevel(node.type)
        /\ IsBinary(node.left) =>
               ClaimedLevel(node.left.type) >= ClaimedLevel(node.type)

RECURSIVE Shape(_)
\* a tree without its locations
Shape(node) ==
    IF IsBinary(node)
    THEN [operator |-> node.type, left |-> Shape(node.left),
          right |-> Shape(node.right)]
    ELSE [value |-> node.value]

Tree(operator, left, right) ==
    [operator |-> operator, left |-> left, right |-> right]

Leaf(value) == [value |-> value]

\* parseExpression returns that tree for those words
ParsesAs(words, tree) ==
    (parseState = "returned" /\ pSource = TokensOf(words)) =>
        Shape(callResult.node) = tree

\* C7: for an expression of integer literals joined by binary operators,
\* parseExpression consumes every token and returns the tree in which the
\* operands keep their order, an operator of higher level (comparison 0,
\* `|` 1, `&` 2, `+ -` 3, `* / %` 4) binds tighter and operators of one
\* level group to the left.
C7_PrecedenceTree ==
    /\ IsOperatorChain(pSource) =>
           /\ parseState # "thrown"
           /\ parseState = "returned" =>
                  /\ callResult.kind = "ok"
                  /\ callResult.count = Len(pSource)
                  /\ InOrder(callResult.node) =
                         [i \in 1..Len(pSource) |->
                             IF i % 2 = 1 THEN [leaf |-> i]
                             ELSE [operator |->
                                       ClaimedOperator(pSource[i].value)]]
                  /\ Grouped(callResult.node)
    /\ ParsesAs(<<"1", "+", "2", "*", "3">>,
                Tree("addition", Leaf(1),
                     Tree("multiplication", Leaf(2), Leaf(3))))
    /\ ParsesAs(<<"1", "==", "2", "+", "3">>,
                Tree("equality", Leaf(1),
                     Tree("addition", Leaf(2), Leaf(3))))
    /\ ParsesAs(<<"1", "|", "2", "&", "3">>,
                Tree("bitwise-or", Leaf(1),
                     Tree("bitwise-and", Leaf(2), Leaf(3))))
    /\ ParsesAs(<<"1", "-", "2", "-", "3">>,
                Tree("subtraction",
                     Tree("subtraction", Leaf(1), Leaf(2)), Leaf(3)))

\* parseExpression has returned the tree of 1 - 2 - 3, grouped to the left
C7_Witness ==
    /\ parseState = "returned"
    /\ call = "parseExpression"
    /\ pSource = TokensOf(<<"1", "-", "2", "-", "3">>)
    /\ callResult.node.left.type = "subtraction"

Placeholders ==
    {"expression", "arguments", "parameters", "statements",
     "primitive-statement"}

\* a recursive placeholder stands before the pattern element that failed
Attempted(r) ==
    \E j \in 1..(r.patternIndex - 1) : callPattern[j].type \in Placeholders

Finished == call = "matchPattern" /\ parseState \in {"returned", "thrown"}

C9_OnlyInputError ==
    (call = "parse" /\ parseState = "thrown") =>
        /\ parseError.type = "InputError"
        /\ parseError.location.line >= 1
        /\ parseError.location.column >= 1

IsKeyword(i, word) ==
    /\ i \in 1..Len(pSource)
    /\ pSource[i].type = "keyword"
    /\ pSource[i].value = word

IsSymbol(i, word) ==
    /\ i \in 1..Len(pSource)
    /\ pSource[i].type = "symbol"
    /\ pSource[i].value = word

IfAt == {i \in 1..Len(pSource) : IsKeyword(i, "if")}

ElseIfAt == {i \in 1..Len(pSource) : IsKeyword(i, "else") /\ IsKeyword(i + 1, "if")}

ElseAt == {i \in 1..Len(pSource) : IsKeyword(i, "else") /\ IsSymbol(i + 1, "{")}

\* the tokens are one `if` with its `else if` and `else` clauses, none of
\* them holding another if statement
IsIfChain ==
    /\ IsKeyword(1, "if")
    /\ \A i \in IfAt : i = 1 \/ (i - 1) \in ElseIfAt
    /\ Cardinality(ElseAt) <= 1

\* the k-th smallest element of S
Nth(S, k) == CHOOSE x \in S : Cardinality({y \in S : y < x}) = k - 1

\* C10: an `if` followed by N `else if` clauses parses to one if statement
\* with N + 1 blocks in source order, whose elseBlock is non-null exactly
\* when a final `else { ... }` is present.
C10_IfElseChain ==
    (call = "parse" /\ parseState = "returned" /\ IsIfChain) =>
        /\ Len(statements) = 1
        /\ statements[1].type = "if"
        /\ Len(statements[1].blocks) = Cardinality(ElseIfAt) + 1
        /\ \A k \in 1..Len(statements[1].blocks) :
               statements[1].blocks[k].condition.location.column =
                   Nth(IfAt, k) + 2
        /\ (statements[1].elseBlock # Null) <=> (ElseAt # {})

\* parse has returned an if statement with two `else if` blocks and an else
C10_Witness ==
    /\ call = "parse"
    /\ parseState = "returned"
    /\ IsIfChain
    /\ Cardinality(ElseIfAt) = 2
    /\ Len(statements[1].blocks) = 3
    /\ statements[1].elseBlock # Null


(***************************************************************************)
(* generator.ts (lines 1-326): tables, the output buffer and the values    *)
(* the generator threads through its calls                                 *)
(***************************************************************************)
primitiveTypes ==
    << [identifier |-> "i8", size |-> 1], [identifier |-> "u8", size |-> 1],
       [identifier |-> "i16", size |-> 2], [identifier |-> "u16", size |-> 2],
       [identifier |-> "i32", size |-> 4], [identifier |-> "u32", size |-> 4] >>

\* a check that takes every identifier for a type
IsPrimitiveType_Any(typeIdentifier) == TRUE

\* primitiveTypes.some((type) => type.identifier === typeIdentifier)
IsPrimitiveType(typeIdentifier) ==
    \E i \in DOMAIN primitiveTypes :
        primitiveTypes[i].identifier = typeIdentifier

\* every type takes one byte
SizeOf_OneByte(typeIdentifier) == 1

\* primitiveTypes.find(...)?.size ?? 0
SizeOf(typeIdentifier) ==
    LET hits == {i \in DOMAIN primitiveTypes :
                     primitiveTypes[i].identifier = typeIdentifier}
    IN  IF hits = {} THEN 0 ELSE primitiveTypes[First(hits)].size

DecimalDigits == <<"0", "1", "2", "3", "4", "5", "6", "7", "8", "9">>

RECURSIVE Decimal(_)
\* `${n}` for a non-negative integer n
Decimal(n) ==
    IF n < 10 THEN DecimalDigits[n + 1]
    ELSE Decimal(n \div 10) \o DecimalDigits[(n % 10) + 1]

RECURSIVE ZeroPad(_, _)
ZeroPad(text, width) ==
    IF Len(text) >= width THEN text ELSE ZeroPad("0" \o text, width)

\* `${value}` for the value num / den of a float literal (den a power of 10,
\* num not a multiple of 10 unless den = 1)
FloatText(value) ==
    IF value.den = 1 THEN Decimal(value.num)
    ELSE Decimal(value.num \div value.den) \o "." \o
         ZeroPad(Decimal(value.num % value.den), Len(Decimal(value.den)) - 1)

RECURSIVE Join(_)
\* numbers.join(', ')
Join(numbers) ==
    IF numbers = <<>> THEN ""
    ELSE IF Len(numbers) = 1 THEN Decimal(numbers[1])
    ELSE Decimal(numbers[1]) \o ", " \o Join(Tail(numbers))

\* new Error(message)
Error(message) == [type |-> "Error", message |-> message]

\* the State of a call, with the diagnostics logged so far and the exception
\* that is propagating, if any
GeneratorState(offset, buffer, diagnostics, error) ==
    [stackOffset |-> offset, outputBuffer |-> buffer, logged |-> diagnostics,
     error |-> error]

Threw(state) == state.error.type # "none"

ThrowIn(state, error) == [state EXCEPT !.error = error]

\* DynamicBuffer.write(Buffer.from(text)); `node` records the location of the
\* node whose case wrote the chunk (history)
Write(state, text, node) ==
    [state EXCEPT !.outputBuffer =
                      Append(@, [text |-> text, node |-> node.location])]

RECURSIVE ByteLength(_)
\* DynamicBuffer.length: the bytes written (the texts of the model are ASCII)
ByteLength(buffer) ==
    IF buffer = <<>> THEN 0
    ELSE Len(buffer[1].text) + ByteLength(Tail(buffer))

\* log(type, message, location)
Log(state, type, message, location) ==
    [state EXCEPT !.logged =
                      Append(@, [type |-> type, message |-> message,
                                 location |-> location])]

\* list.some((variable) => variable.variableIdentifier === identifier)
Declares(list, identifier) ==
    \E i \in DOMAIN list : list[i].variableIdentifier = identifier

\* a find that returns the last match, the outermost declaration
Find_Last(list, identifier) ==
    LET hits == {i \in DOMAIN list : list[i].variableIdentifier = identifier}
    IN  IF hits = {} THEN Null
        ELSE list[CHOOSE i \in hits : \A j \in hits : j <= i]

\* list.find((variable) => variable.variableIdentifier === identifier) ?? null
Find(list, identifier) ==
    LET hits == {i \in DOMAIN list : list[i].variableIdentifier = identifier}
    IN  IF hits = {} THEN Null ELSE list[First(hits)]

NotDeclared(identifier, location) ==
    InputError("Variable " \o identifier \o " is not declared", location)

(***************************************************************************)
(* generator.ts: the recursive functions, one dispatcher for all of them   *)
(***************************************************************************)
RECURSIVE Gen(_)

generateStatements(list, inheritedVariables, state) ==
    Gen([fn |-> "generateStatements", list |-> list,
         inheritedVariables |-> inheritedVariables, state |-> state])

ForEachStatement(list, i, current, inheritedVariables, state) ==
    Gen([fn |-> "ForEachStatement", list |-> list, i |-> i,
         current |-> current, inheritedVariables |-> inheritedVariables,
         state |-> state])

GenerateOne(statement, current, inheritedVariables, state) ==
    Gen([fn |-> "GenerateOne", statement |-> statement, current |-> current,
         inheritedVariables |-> inheritedVariables, state |-> state])

generateExpression(expression, inheritedVariables, state) ==
    Gen([fn |-> "generateExpression", expression |-> expression,
         inheritedVariables |-> inheritedVariables, state |-> state])

IfConditions(statement, i, visible, state) ==
    Gen([fn |-> "IfConditions", statement |-> statement, i |-> i,
         visible |-> visible, state |-> state])

IfBlocks(statement, i, visible, state, jumpLocations) ==
    Gen([fn |-> "IfBlocks", statement |-> statement, i |-> i,
         visible |-> visible, state |-> state,
         jumpLocations |-> jumpLocations])


\* a statement's result: the `variables` of the enclosing forEach after it,
\* and the state
Result(current, state) == [variables |-> current, state |-> state]

\* generateExpression (lines 235-297)
generateExpressionBody(expression, inheritedVariables, state) ==
    LET type == expression.type
    IN  CASE type = "integer-literal" ->
                 Write(state, "< LITERAL INT " \o Decimal(expression.value)
                              \o "\n", expression)
          [] type = "float-literal" ->
                 Write(state, "< LITERAL FLOAT " \o FloatText(expression.value)
                              \o "\n", expression)
          [] type = "string-literal" ->
                 Write(state, "< LITERAL STRING " \o expression.value \o "\n",
                       expression)
          [] type = "variable" ->
                 LET variable == Find(inheritedVariables, expression.identifier)
                 IN  IF variable = Null
                     THEN ThrowIn(state, NotDeclared(expression.identifier,
                                                     expression.location))
                     ELSE Write(state, "< STACK[" \o Decimal(variable.offset)
                                       \o "]\n", expression)
          [] type \in {"increment", "decrement"} ->
                 LET variable == Find(inheritedVariables, expression.identifier)
                 IN  IF variable = Null
                     THEN ThrowIn(state, NotDeclared(expression.identifier,
                                                     expression.location))
                     ELSE Write(state, "< STACK[" \o Decimal(variable.offset)
                                       \o "]" \o (IF type = "increment"
                                                  THEN "++" ELSE "--")
                                       \o "\n", expression)
          [] type = "sub-expression" ->
                 generateExpression(expression.expression, inheritedVariables,
                     Write(state, "; EVAL SUBEXPRESSION\n", expression))
          [] type = "function-call" ->
                 ThrowIn(state, Error("Not implemented"))
          [] type \in BinaryExpressionTypes ->
                 LET a == generateExpression(expression.left,
                              inheritedVariables,
                              Write(state, "; EVAL A\n", expression))
                     b == generateExpression(expression.right,
                              inheritedVariables,
                              Write(a, "; EVAL B\n", expression))
                 IN  IF Threw(a) THEN a
                     ELSE IF Threw(b) THEN b
                     ELSE Write(b, "< A {" \o type \o "} B\n", expression)

\* write '; EVAL EXPRESSION\n', then generateExpression(expression, visible)
Evaluate(expression, visible, state, node) ==
    generateExpression(expression, visible,
                       Write(state, "; EVAL EXPRESSION\n", node))

\* case 'declaration', 'declaration-with-assignment' (lines 52-85)
\* a declaration whose initializer is generated before the variable is pushed
GenerateDeclaration_PushAfter(statement, current, inheritedVariables, state) ==
    LET identifier == statement.variableIdentifier
        warned == IF Declares(inheritedVariables, identifier)
                  THEN Log(state, "WARN", "Variable " \o identifier
                           \o " shadows a previously declared variable",
                           statement.location)
                  ELSE state
        pushed == Append(current,
                         [typeIdentifier |-> statement.typeIdentifier,
                          variableIdentifier |-> identifier,
                          const |-> statement.const,
                          offset |-> state.stackOffset])
        value == Evaluate(statement.assignment,
                          current \o inheritedVariables, warned, statement)
        stored == IF statement.type # "declaration-with-assignment"
                  THEN warned
                  ELSE IF Threw(value) THEN value
                  ELSE Write(value, "> STACK[" \o Decimal(value.stackOffset)
                                    \o "]\n", statement)
    IN  IF ~IsPrimitiveType(statement.typeIdentifier)
        THEN Result(current, ThrowIn(state,
                 InputError("Invalid type identifier: "
                            \o statement.typeIdentifier, statement.location)))
        ELSE IF Declares(current, identifier)
        THEN Result(current, ThrowIn(state,
                 InputError("Variable " \o identifier \o " is already declared",
                            statement.location)))
        ELSE IF statement.type = "declaration" /\ statement.const
        THEN Result(current, ThrowIn(warned,
                 InputError("Cannot declare a constant without an assignment",
                            statement.location)))
        ELSE IF Threw(stored) THEN Result(pushed, stored)
        ELSE Result(pushed,
                    [stored EXCEPT !.stackOffset =
                                       @ + SizeOf(statement.typeIdentifier)])

GenerateDeclaration(statement, current, inheritedVariables, state) ==
    LET identifier == statement.variableIdentifier
        warned == IF Declares(inheritedVariables, identifier)
                  THEN Log(state, "WARN", "Variable " \o identifier
                           \o " shadows a previously declared variable",
                           statement.location)
                  ELSE state
        pushed == Append(current,
                         [typeIdentifier |-> statement.typeIdentifier,
                          variableIdentifier |-> identifier,
                          const |-> statement.const,
                          offset |-> state.stackOffset])
        value == Evaluate(statement.assignment,
                          pushed \o inheritedVariables, warned, statement)
        stored == IF statement.type # "declaration-with-assignment"
                  THEN warned
                  ELSE IF Threw(value) THEN value
                  ELSE Write(value, "> STACK[" \o Decimal(value.stackOffset)
                                    \o "]\n", statement)
    IN  IF ~IsPrimitiveType(statement.typeIdentifier)
        THEN Result(current, ThrowIn(state,
                 InputError("Invalid type identifier: "
                            \o statement.typeIdentifier, statement.location)))
        ELSE IF Declares(current, identifier)
        THEN Result(current, ThrowIn(state,
                 InputError("Variable " \o identifier \o " is already declared",
                            statement.location)))
        ELSE IF statement.type = "declaration" /\ statement.const
        THEN Result(current, ThrowIn(warned,
                 InputError("Cannot declare a constant without an assignment",
                            statement.location)))
        ELSE IF Threw(stored) THEN Result(pushed, stored)
        ELSE Result(pushed,
                    [stored EXCEPT !.stackOffset =
                                       @ + SizeOf(statement.typeIdentifier)])

\* a lookup that forgets the inherited variables
Lookup_CurrentOnly(current, inheritedVariables, identifier) ==
    Find(current, identifier)

\* variables.find(...) ?? inheritedVariables.find(...) ?? null
Lookup(current, inheritedVariables, identifier) ==
    IF Find(current, identifier) # Null THEN Find(current, identifier)
    ELSE Find(inheritedVariables, identifier)

\* case 'assignment' (lines 86-101)
GenerateAssignment(statement, current, inheritedVariables, state) ==
    LET variable == Lookup(current, inheritedVariables,
                           statement.variableIdentifier)
        value == Evaluate(statement.assignment,
                          current \o inheritedVariables, state, statement)
    IN  IF variable = Null
        THEN ThrowIn(state, NotDeclared(statement.variableIdentifier,
                                        statement.location))
        ELSE IF variable.const
        THEN ThrowIn(state, InputError("Cannot assign to a constant variable",
                                       statement.location))
        ELSE IF Threw(value) THEN value
        ELSE Write(value, "> STACK[" \o Decimal(variable.offset) \o "]\n",
                   statement)

\* case 'increment', 'decrement' (lines 102-118)
GenerateIncrement(statement, current, inheritedVariables, state) ==
    LET variable == Lookup(current, inheritedVariables,
                           statement.variableIdentifier)
    IN  IF variable = Null
        THEN ThrowIn(state, NotDeclared(statement.variableIdentifier,
                                        statement.location))
        ELSE IF variable.const
        THEN ThrowIn(state, InputError("Cannot modify a constant variable",
                                       statement.location))
        ELSE Write(state, "STACK[" \o Decimal(variable.offset) \o "]"
                          \o (IF statement.type = "increment"
                              THEN "++" ELSE "--") \o "\n", statement)

\* a nested list whose declarations are forgotten at its end: stackOffset is
\* set back to what it was before the list
Nested_RestoreOffset(begin, list, end, visible, state, node) ==
    LET inner == generateStatements(list, visible,
                                    Write(state, begin, node)).state
    IN  IF Threw(inner) THEN inner
        ELSE [Write(inner, end, node) EXCEPT !.stackOffset = state.stackOffset]

\* begin, generateStatements(list, visible, state), end (the returned
\* variables are dropped)
Nested(begin, list, end, visible, state, node) ==
    LET inner == generateStatements(list, visible,
                                    Write(state, begin, node)).state
    IN  IF Threw(inner) THEN inner ELSE Write(inner, end, node)

\* case 'scope' (lines 122-126)
GenerateScope(statement, visible, state) ==
    Nested("; BEGIN SCOPE\n", statement.statements, "; END SCOPE\n", visible,
           state, statement)


\* case 'if': statement.blocks.forEach(...) of lines 128-134, from block i
IfConditionsBody(statement, i, visible, state) ==
    IF i > Len(statement.blocks) THEN state
    ELSE LET begun == Write(state, "; BEGIN IF COND\n", statement)
             value == Evaluate(statement.blocks[i].condition, visible, begun,
                               statement)
         IN  IF Threw(value) THEN value
             ELSE IfConditions(statement, i + 1, visible,
                      Write(Write(value, "JMP IF TRUE ??\n", statement),
                            "; END IF COND\n", statement))

\* case 'if': the forEach over the block bodies of lines 142-147, from
\* block i
IfBlocksBody(statement, i, visible, state, jumpLocations) ==
    IF i > Len(statement.blocks)
    THEN [state |-> state, jumpLocations |-> jumpLocations]
    ELSE LET block == Nested("; BEGIN IF BLOCK\n",
                             statement.blocks[i].statements,
                             "; END IF BLOCK\n", visible, state, statement)
             pushed == Append(jumpLocations, ByteLength(state.outputBuffer))
         IN  IF Threw(block)
             THEN [state |-> block, jumpLocations |-> pushed]
             ELSE IfBlocks(statement, i + 1, visible, block, pushed)

\* case 'if' (lines 127-159)
GenerateIf(statement, visible, state) ==
    LET conditions == IfConditions(statement, 1, visible, state)
        elseCondition ==
            Write(Write(Write(conditions, "; BEGIN ELSE COND\n", statement),
                        "JMP ??\n", statement),
                  "; END ELSE COND\n", statement)
        blocks == IfBlocks(statement, 1, visible, elseCondition, <<>>)
        elseJumpLocation == ByteLength(blocks.state.outputBuffer)
        elseBlock ==
            IF statement.elseBlock = Null THEN blocks.state
            ELSE Nested("; BEGIN ELSE BLOCK\n", statement.elseBlock.statements,
                        "; END ELSE BLOCK\n", visible, blocks.state, statement)
    IN  IF Threw(conditions) THEN conditions
        ELSE IF Threw(blocks.state) THEN blocks.state
        ELSE IF Threw(elseBlock) THEN elseBlock
        ELSE Write(Write(elseBlock,
                         "-> FILL IF BLOCK JMP: " \o Join(blocks.jumpLocations)
                         \o "\n", statement),
                   "-> FILL ELSE BLOCK JMP: " \o Decimal(elseJumpLocation)
                   \o "\n", statement)

\* the condition section of a loop: begin, '; EVAL EXPRESSION\n', the
\* expression, the jump, end
Condition(begin, expression, jump, end, visible, state, node) ==
    LET value == Evaluate(expression, visible, Write(state, begin, node), node)
    IN  IF Threw(value) THEN value
        ELSE Write(Write(value, jump, node), end, node)

\* case 'while' (lines 160-185)
GenerateWhile(statement, visible, state) ==
    LET beforeByteOffset == ByteLength(state.outputBuffer)
        condition ==
            IF statement.doWhile THEN state
            ELSE Condition("; BEGIN WHILE COND\n", statement.condition,
                           "JMP IF FALSE ??\n", "; END WHILE COND\n", visible,
                           state, statement)
        block == Nested("; BEGIN WHILE BLOCK\n", statement.statements,
                        "; END WHILE BLOCK\n", visible, condition, statement)
        jump == Write(block, "JMP " \o Decimal(beforeByteOffset) \o "\n",
                      statement)
    IN  IF Threw(condition) THEN condition
        ELSE IF Threw(block) THEN block
        ELSE IF ~statement.doWhile
        THEN Write(jump, "-> FILL WHILE JMP: "
                         \o Decimal(ByteLength(jump.outputBuffer)) \o "\n",
                   statement)
        ELSE Condition("; BEGIN WHILE COND\n", statement.condition,
                       "JMP IF TRUE " \o Decimal(beforeByteOffset) \o "\n",
                       "; END WHILE COND\n", visible, block, statement)

\* a for whose trailing jump goes back to the initialization
GenerateFor_JumpToInit(statement, visible, state) ==
    LET initialization ==
            IF statement.initialization = Null THEN state
            ELSE Nested("; BEGIN FOR INIT\n", <<statement.initialization>>,
                        "; END FOR INIT\n", visible, state, statement)
        beforeByteOffset == ByteLength(state.outputBuffer)
        condition ==
            IF statement.condition = Null THEN initialization
            ELSE Condition("; BEGIN FOR COND\n", statement.condition,
                           "JMP IF FALSE ??\n", "; END FOR COND\n", visible,
                           initialization, statement)
        block == Nested("; BEGIN FOR BLOCK\n", statement.statements,
                        "; END FOR BLOCK\n", visible, condition, statement)
        action ==
            IF statement.action = Null THEN block
            ELSE Nested("; BEGIN FOR ACTION\n", <<statement.action>>,
                        "; END FOR ACTION\n", visible, block, statement)
        jump == Write(action, "JMP " \o Decimal(beforeByteOffset) \o "\n",
                      statement)
    IN  IF Threw(initialization) THEN initialization
        ELSE IF Threw(condition) THEN condition
        ELSE IF Threw(block) THEN block
        ELSE IF Threw(action) THEN action
        ELSE Write(jump, "-> FILL FOR JMP: "
                         \o Decimal(ByteLength(jump.outputBuffer)) \o "\n",
                   statement)

\* case 'for' (lines 186-219)
GenerateFor(statement, visible, state) ==
    LET initialization ==
            IF statement.initialization = Null THEN state
            ELSE Nested("; BEGIN FOR INIT\n", <<statement.initialization>>,
                        "; END FOR INIT\n", visible, state, statement)
        beforeByteOffset == ByteLength(initialization.outputBuffer)
        condition ==
            IF statement.condition = Null THEN initialization
            ELSE Condition("; BEGIN FOR COND\n", statement.condition,
                           "JMP IF FALSE ??\n", "; END FOR COND\n", visible,
                           initialization, statement)
        block == Nested("; BEGIN FOR BLOCK\n", statement.statements,
                        "; END FOR BLOCK\n", visible, condition, statement)
        action ==
            IF statement.action = Null THEN block
            ELSE Nested("; BEGIN FOR ACTION\n", <<statement.action>>,
                        "; END FOR ACTION\n", visible, block, statement)
        jump == Write(action, "JMP " \o Decimal(beforeByteOffset) \o "\n",
                      statement)
    IN  IF Threw(initialization) THEN initialization
        ELSE IF Threw(condition) THEN condition
        ELSE IF Threw(block) THEN block
        ELSE IF Threw(action) THEN action
        ELSE Write(jump, "-> FILL FOR JMP: "
                         \o Decimal(ByteLength(jump.outputBuffer)) \o "\n",
                   statement)

\* the body of statements.forEach (lines 49-230) for one statement
GenerateOneBody(statement, current, inheritedVariables, state) ==
    LET type == statement.type
        visible == current \o inheritedVariables
    IN  CASE type \in {"declaration", "declaration-with-assignment"} ->
                 GenerateDeclaration(statement, current, inheritedVariables,
                                     state)
          [] type = "assignment" ->
                 Result(current, GenerateAssignment(statement, current,
                                     inheritedVariables, state))
          [] type \in {"increment", "decrement"} ->
                 Result(current, GenerateIncrement(statement, current,
                                     inheritedVariables, state))
          [] type = "function-call" ->
                 Result(current, ThrowIn(state, Error("Not implemented")))
          [] type = "scope" ->
                 Result(current, GenerateScope(statement, visible, state))
          [] type = "if" ->
                 Result(current, GenerateIf(statement, visible, state))
          [] type = "while" ->
                 Result(current, GenerateWhile(statement, visible, state))
          [] type = "for" ->
                 Result(current, GenerateFor(statement, visible, state))
          [] type \in {"continue", "break", "function-declaration",
                       "return"} ->
                 Result(current, ThrowIn(state, Error("Not implemented")))

\* statements.forEach (line 49) from statement i on; an exception ends it
ForEachStatementBody(list, i, current, inheritedVariables, state) ==
    IF i > Len(list) THEN Result(current, state)
    ELSE LET r == GenerateOne(list[i], current, inheritedVariables, state)
         IN  IF Threw(r.state) THEN r
             ELSE ForEachStatement(list, i + 1, r.variables,
                                   inheritedVariables, r.state)

\* generateStatements (lines 46-233)
generateStatementsBody(list, inheritedVariables, state) ==
    ForEachStatement(list, 1, <<>>, inheritedVariables, state)

Gen(f) ==
    CASE f.fn = "generateStatements" ->
             generateStatementsBody(f.list, f.inheritedVariables, f.state)
      [] f.fn = "ForEachStatement" ->
             ForEachStatementBody(f.list, f.i, f.current,
                                  f.inheritedVariables, f.state)
      [] f.fn = "GenerateOne" ->
             GenerateOneBody(f.statement, f.current, f.inheritedVariables,
                             f.state)
      [] f.fn = "generateExpression" ->
             generateExpressionBody(f.expression, f.inheritedVariables,
                                    f.state)
      [] f.fn = "IfConditions" ->
             IfConditionsBody(f.statement, f.i, f.visible, f.state)
      [] f.fn = "IfBlocks" ->
             IfBlocksBody(f.statement, f.i, f.visible, f.state,
                          f.jumpLocations)


(***************************************************************************)
(* generate (lines 34-44): one action per iteration of the outermost       *)
(* forEach                                                                 *)
(***************************************************************************)
\* lines 35-41: the State of the call, and the call of generateStatements
\* with no inherited variables
StartGenerate ==
    /\ genState = "idle"
    /\ stackOffset' = 0
    /\ outputBuffer' = <<>>
    /\ variables' = <<>>
    /\ genIndex' = 1
    /\ genState' = "running"
    /\ UNCHANGED <<genLogged, genError, assembly>>

\* a caller passes the statements parse returned to generate
CallGenerate ==
    /\ mainState = "none"
    /\ call = "parse"
    /\ parseState = "returned"
    /\ StartGenerate
    /\ UNCHANGED <<lexVars, parseVars, mainVars, bufferVars>>

GenerateStatement ==
    /\ genState = "running"
    /\ genIndex <= Len(statements)
    /\ LET r == GenerateOne(statements[genIndex], variables, <<>>,
                    GeneratorState(stackOffset, outputBuffer, genLogged,
                                   NoError))
       IN  /\ variables' = r.variables
           /\ stackOffset' = r.state.stackOffset
           /\ outputBuffer' = r.state.outputBuffer
           /\ genLogged' = r.state.logged
           /\ IF Threw(r.state)
              THEN /\ genState' = "thrown"
                   /\ genError' = r.state.error
                   /\ UNCHANGED genIndex
              ELSE /\ genIndex' = genIndex + 1
                   /\ UNCHANGED <<genState, genError>>
    /\ UNCHANGED assembly
    /\ UNCHANGED <<lexVars, parseVars, mainVars, bufferVars>>

\* line 43: return { code: state.outputBuffer.buffer }
GenerateReturn ==
    /\ genState = "running"
    /\ genIndex > Len(statements)
    /\ genState' = "returned"
    /\ assembly' = [code |-> outputBuffer]
    /\ UNCHANGED <<stackOffset, outputBuffer, variables, genIndex, genLogged,
                   genError>>
    /\ UNCHANGED <<lexVars, parseVars, mainVars, bufferVars>>

(***************************************************************************)
(* generate: the programs of the model, written as token arrays (see       *)
(* TokensOf), and the specification: parse, then generate on its result    *)
(***************************************************************************)
MaxStatements == 2

GenerateStatementWords ==
    { <<"i8", "a", ";">>,
      <<"i16", "b", "=", "1", ";">>,
      <<"const", "i32", "c", "=", "a", ";">>,
      <<"a", "=", "b", ";">>,
      <<"b", "++", ";">>,
      <<"c", "--", ";">>,
      <<"i32", "a", "=", "c", "++", ";">>,
      <<"{", "u8", "a", "=", "2", ";", "a", "=", "3", ";", "}">>,
      <<"{", "a", "=", "b", ";", "}">> }

GenerateSamples ==
    { <<"{", "i32", "x", "=", "1", ";", "}", "x", "=", "2", ";">>,
      <<"i32", "x", "=", "1", ";", "{", "x", "=", "2", ";", "}">>,
      <<"i32", "x", "=", "1", ";", "{", "i32", "x", "=", "2", ";", "}">>,
      <<"i8", "y", ";", "i32", "x", "=", "1", ";",
        "{", "i16", "x", "=", "2", ";", "x", "=", "x", "+", "1", ";",
        "{", "x", "++", ";", "}", "}", "x", "=", "3", ";">>,
      <<"i32", "x", ";", "{", "const", "i32", "x", ";", "}">>,
      <<"i32", "x", ";", "{", "f64", "x", ";", "}">>,
      <<"i32", "x", ";", "i32", "x", ";">>,
      <<"f64", "x", ";">>,
      <<"const", "f64", "x", ";">>,
      <<"i8", "a", ";", "const", "i8", "a", ";">>,
      <<"i8", "a", ";", "i64", "a", "=", "1", ";">>,
      <<"i32", "x", "=", "y", ";">>,
      <<"i32", "x", "=", "x", ";">>,
      <<"i32", "x", "=", "1", ";", "{", "i32", "x", "=", "x", ";", "}">>,
      <<"i8", "a", "=", "1", ";", "const", "i16", "x", "=", "x", "+", "a", ";">>,
      <<"const", "i32", "x", "=", "1", ";", "x", "=", "2", ";">>,
      <<"const", "i32", "x", "=", "1", ";", "x", "++", ";">>,
      <<"const", "i32", "x", "=", "1", ";", "{", "x", "--", ";", "}">>,
      <<"const", "i32", "x", "=", "1", ";", "i32", "y", "=", "x", "++", ";">>,
      <<"const", "i32", "x", "=", "1", ";", "i32", "y", "=",
        "(", "x", "--", ")", "+", "1", ";">>,
      <<"i8", "a", ";", "i16", "b", ";", "i32", "c", ";">>,
      <<"u8", "a", ";", "u16", "b", ";", "u32", "c", ";", "i8", "d", ";">>,
      <<"for", "(", "i32", "i", "=", "0", ";", "i", "<", "3", ";",
        "i", "++", ")", "{", "}">>,
      <<"for", "(", "i32", "i", "=", "0", ";", "1", ";", "i", "++", ")",
        "{", "}">>,
      <<"i32", "c", ";", "for", "(", "i32", "i", "=", "0", ";", "1", ";",
        "c", "++", ")", "{", "i", "++", ";", "}">>,
      <<"i32", "c", ";", "for", "(", "i32", "i", "=", "0", ";", "1", ";",
        "c", "++", ")", "{", "}", "i", "=", "1", ";">>,
      <<"i32", "c", ";", "for", "(", "i32", "i", "=", "0", ";", "c", ";",
        "i", "++", ")", "{", "}">>,
      <<"i32", "i", ";", "for", "(", "i", "=", "0", ";", "i", "<", "3", ";",
        "i", "++", ")", "{", "i", "--", ";", "}">>,
      <<"if", "(", "1", ")", "{", "}">>,
      <<"i32", "c", "=", "1", ";", "if", "(", "c", ")", "{", "c", "=", "2",
        ";", "}">>,
      <<"if", "(", "1", ")", "{", "}", "else", "if", "(", "2", ")", "{", "}",
        "else", "{", "}">>,
      <<"if", "(", "1", ")", "{", "if", "(", "2", ")", "{", "}", "}",
        "else", "{", "}">>,
      <<"i32", "i", "=", "0", ";", "while", "(", "i", "<", "9", ")",
        "{", "i", "++", ";", "}">>,
      <<"while", "(", "1", ")", "{", "while", "(", "0", ")", "{", "}", "}">>,
      <<"do", "{", "}", "while", "(", "1", ")", ";">>,
      <<"foo", "(", ")", ";">>,
      <<"i32", "x", "=", "foo", "(", ")", ";">>,
      <<"i32", "f", "(", ")", "{", "}">>,
      <<"return", ";">>,
      <<"break", ";">>,
      <<"{", "break", ";", "}">>,
      <<"i32", "x", "=", "1.5", ";", "i32", "s", "=", "'s'", ";">> }

GenerateInputs ==
    {Flatten(ss) : ss \in WordsUpTo(MaxStatements, GenerateStatementWords)}
        \cup GenerateSamples

InitGenerate == InitParserCall("parse", GenerateInputs, {<<>>})

NextGenerate ==
    \/ ParseStatementStep
    \/ ParseReturn
    \/ CallGenerate
    \/ GenerateStatement
    \/ GenerateReturn

SpecGenerate == InitGenerate /\ [][NextGenerate]_vars


(***************************************************************************)
(* Properties of generate.  Lexical scoping is stated on the syntax tree,  *)
(* independently of the generator: Sites lists every statement and every   *)
(* variable reference of a program with the declarations that lexically    *)
(* precede it, and the properties compare what the generator wrote for     *)
(* the site with what these declarations require.                          *)
(***************************************************************************)
IsDeclaration(statement) ==
    statement.type \in {"declaration", "declaration-with-assignment"}

\* a declaration, as the sites see it; kind is "list" for a declaration that
\* is a statement of a statement list, "for" for the initialization of a for
Declaration(statement, kind) ==
    [name |-> statement.variableIdentifier, at |-> statement.location,
     const |-> statement.const, typeIdentifier |-> statement.typeIdentifier,
     assigned |-> (statement.type = "declaration-with-assignment"),
     kind |-> kind]

RECURSIVE DeclarationsOf(_, _)
\* the declarations among the statements of a list, in order
DeclarationsOf(list, kind) ==
    IF list = <<>> THEN <<>>
    ELSE (IF IsDeclaration(list[1])
          THEN <<Declaration(list[1], kind)>> ELSE <<>>)
         \o DeclarationsOf(Tail(list), kind)

\* the statement lists nested directly in a statement; for a for statement:
\* the initialization, the body, the action
ChildLists(statement) ==
    CASE statement.type \in {"scope", "while"} -> <<statement.statements>>
      [] statement.type = "if" ->
             [i \in 1..Len(statement.blocks) |->
                  statement.blocks[i].statements]
             \o (IF statement.elseBlock = Null THEN <<>>
                 ELSE <<statement.elseBlock.statements>>)
      [] statement.type = "for" ->
             << IF statement.initialization = Null THEN <<>>
                ELSE <<statement.initialization>>,
                statement.statements,
                IF statement.action = Null THEN <<>>
                ELSE <<statement.action>> >>
      [] OTHER -> <<>>

\* the expressions a statement evaluates itself
OwnExpressions(statement) ==
    CASE statement.type \in {"declaration-with-assignment", "assignment"} ->
             <<statement.assignment>>
      [] statement.type = "if" ->
             [i \in 1..Len(statement.blocks) |-> statement.blocks[i].condition]
      [] statement.type = "while" -> <<statement.condition>>
      [] statement.type = "for" ->
             IF statement.condition = Null THEN <<>>
             ELSE <<statement.condition>>
      [] OTHER -> <<>>

RECURSIVE DeclaredWithin(_)
\* the names declared by the statements of a list or anywhere inside them
DeclaredWithin(list) ==
    UNION { (IF IsDeclaration(list[i])
             THEN {list[i].variableIdentifier} ELSE {})
            \cup UNION { DeclaredWithin(ChildLists(list[i])[j]) :
                         j \in DOMAIN ChildLists(list[i]) } :
            i \in DOMAIN list }

RECURSIVE References(_)
\* the variable, increment and decrement nodes of an expression
References(expression) ==
    CASE expression.type \in {"variable", "increment", "decrement"} ->
             {[at |-> expression.location, type |-> expression.type,
               name |-> expression.identifier]}
      [] expression.type = "sub-expression" ->
             References(expression.expression)
      [] expression.type \in BinaryExpressionTypes ->
             References(expression.left) \cup References(expression.right)
      [] expression.type = "function-call" ->
             UNION { References(expression.arguments[i]) :
                     i \in DOMAIN expression.arguments }
      [] OTHER -> {}

\* a site: a statement (expression FALSE) or a reference inside an expression
\* (expression TRUE) at location `at`; local: the declarations that precede
\* it in its own statement list, outer: those of the enclosing lists, inner
\* lists first; gone: the names declared inside the statements that precede
\* it in its own list; self: the reference is in the initializer of a
\* declaration of the same name
Site(at, type, name, expression, self, local, outer, gone) ==
    [at |-> at, type |-> type, name |-> name, expression |-> expression,
     self |-> self, local |-> local, outer |-> outer, gone |-> gone]

RECURSIVE Sites(_, _)
Sites(list, outer) ==
    UNION {
        LET statement == list[m]
            local == DeclarationsOf(Take(list, m - 1), "list")
            gone == UNION { UNION { DeclaredWithin(ChildLists(list[k])[j]) :
                                    j \in DOMAIN ChildLists(list[k]) } :
                            k \in 1..(m - 1) }
            name == IF statement.type \in {"declaration", "assignment",
                        "declaration-with-assignment", "increment",
                        "decrement"}
                    THEN statement.variableIdentifier ELSE ""
            \* what the lists of a for statement see: the declaration of its
            \* initialization comes first
            inFor == IF statement.type = "for"
                     THEN DeclarationsOf(ChildLists(statement)[1], "for")
                     ELSE <<>>
            own == OwnExpressions(statement)
            children == ChildLists(statement)
        IN  {Site(statement.location, statement.type, name, FALSE, FALSE,
                  local, outer, gone)}
            \cup UNION { { Site(r.at, r.type, r.name, TRUE,
                                IsDeclaration(statement) /\ r.name = name,
                                inFor \o local, outer, gone) :
                           r \in References(own[j]) } : j \in DOMAIN own }
            \cup UNION { Sites(children[j],
                               (IF statement.type = "for" /\ j > 1
                                THEN inFor ELSE <<>>) \o local \o outer) :
                         j \in DOMAIN children } :
        m \in DOMAIN list }

\* the declaration a name is lexically bound to at a site: the first one of
\* that name, own list first, Null if there is none
Binding(site) ==
    LET visible == site.local \o site.outer
        hits == {i \in DOMAIN visible : visible[i].name = site.name}
    IN  IF hits = {} THEN Null ELSE visible[First(hits)]

\* the name of the site is bound, and by a declaration of an enclosing list
BoundOutside(site) ==
    /\ Binding(site) # Null
    /\ \A i \in DOMAIN site.local : site.local[i].name # site.name

\* the generator wrote `text` for the node at `at`
WroteIn(buffer, at, text) ==
    \E i \in DOMAIN buffer : buffer[i].node = at /\ buffer[i].text = text

Wrote(at, text) == WroteIn(outputBuffer, at, text)

\* generate raised an InputError located at `at`
RejectedAt(at) ==
    /\ genState = "thrown"
    /\ genError.type = "InputError"
    /\ genError.location = at

\* every offset the generator has handed out is below stackOffset
Offsets == 0..stackOffset

Store(n) == "> STACK[" \o Decimal(n) \o "]\n"

\* the program parse was given, as words
Program(words) == pSource = TokensOf(words)


\* an assignment statement
IsAssignment(site) == site.type = "assignment" /\ ~site.expression

\* generate has finished, one way or the other
Generated == genState \in {"returned", "thrown"}

\* C11: scope visibility.  An assignment to a name that no preceding
\* declaration of its own or an enclosing list binds, and that a scope nested
\* in a preceding statement declares, is never generated: it is rejected with
\* 'Variable x is not declared' and the run returns no artifact.  An
\* assignment to a variable that an enclosing list declares (with an
\* initializer, not const) is not rejected, and it stores to the STACK offset
\* the declaration stored to.  `{ i32 x = 1; } x = 2;` fails at the
\* assignment; `i32 x = 1; { x = 2; }` returns, both statements storing to
\* the same offset.
C11_ScopeVisibility ==
    /\ \A s \in Sites(statements, <<>>) :
          /\ (IsAssignment(s) /\ Binding(s) = Null /\ s.name \in s.gone) =>
                /\ genState # "returned"
                /\ \A n \in Offsets : ~Wrote(s.at, Store(n))
                /\ RejectedAt(s.at) =>
                       genError.message =
                           "Variable " \o s.name \o " is not declared"
          /\ (/\ IsAssignment(s)
              /\ BoundOutside(s)
              /\ Binding(s).kind = "list"
              /\ Binding(s).assigned
              /\ ~Binding(s).const) =>
                /\ ~RejectedAt(s.at)
                /\ \A n \in Offsets :
                       Wrote(s.at, Store(n)) => Wrote(Binding(s).at, Store(n))
    /\ (Program(<<"{", "i32", "x", "=", "1", ";", "}", "x", "=", "2", ";">>)
        /\ Generated) =>
          genError = NotDeclared("x", [line |-> 1, column |-> 8])
    /\ (Program(<<"i32", "x", "=", "1", ";", "{", "x", "=", "2", ";", "}">>)
        /\ Generated) =>
          /\ genState = "returned"
          /\ \E n \in Offsets : /\ Wrote([line |-> 1, column |-> 2], Store(n))
                                /\ Wrote([line |-> 1, column |-> 7], Store(n))

\* an assignment in a nested list to a variable of an enclosing list was
\* generated, and the run returned
C11_Witness ==
    /\ genState = "returned"
    /\ \E s \in Sites(statements, <<>>) :
          /\ IsAssignment(s)
          /\ BoundOutside(s)
          /\ Binding(s).assigned
          /\ \E n \in Offsets : Wrote(s.at, Store(n))


\* the declarations of enclosing statement lists that have the name of the
\* site
Shadowed(site) ==
    SelectSeq(site.outer, LAMBDA d : d.name = site.name /\ d.kind = "list")

\* a declaration statement whose name collides with a variable of an
\* enclosing list and with none of its own list
IsShadowing(site) ==
    /\ site.type \in {"declaration", "declaration-with-assignment"}
    /\ ~site.expression
    /\ Shadowed(site) # <<>>
    /\ \A i \in DOMAIN site.local : site.local[i].name # site.name

ShadowWarning(name, at) ==
    [type |-> "WARN",
     message |-> "Variable " \o name \o " shadows a previously declared variable",
     location |-> at]

\* how often generate logged the W-Shadow warning for the declaration at `at`
Warned(name, at) ==
    Cardinality({i \in DOMAIN genLogged :
                     genLogged[i] = ShadowWarning(name, at)})

\* what a site writes when it resolves its name to offset n
Use(site, n) ==
    LET slot == "STACK[" \o Decimal(n) \o "]"
    IN  CASE site.type = "variable" -> "< " \o slot \o "\n"
          [] site.type = "increment" /\ site.expression ->
                 "< " \o slot \o "++\n"
          [] site.type = "decrement" /\ site.expression ->
                 "< " \o slot \o "--\n"
          [] site.type = "increment" -> slot \o "++\n"
          [] site.type = "decrement" -> slot \o "--\n"
          [] OTHER -> Store(n)

\* a lookup: a statement or an expression that resolves a name
IsLookup(site) ==
    /\ site.type \in {"assignment", "increment", "decrement", "variable"}
    /\ ~site.self

\* the site is in the scope of a shadowing declaration: the declaration that
\* binds its name is a statement of a list, and an enclosing list of that
\* declaration declares the name too
BoundToShadowing(site) ==
    LET visible == site.local \o site.outer
    IN  /\ Binding(site) # Null
        /\ Binding(site).kind = "list"
        /\ \E i, j \in DOMAIN visible :
              /\ i < j
              /\ visible[i] = Binding(site)
              /\ visible[j].name = site.name
              /\ visible[j].kind = "list"

\* C12: shadowing.  A declaration whose name collides with a variable of an
\* enclosing scope and with none of its own scope is never rejected as
\* 'already declared'; once the generator has stored its initial value, and
\* in every run that returns, exactly one W-Shadow warning is logged at its
\* location, and no W-Shadow warning is logged anywhere else.  Every later
\* lookup that the inner declaration binds uses the offset the inner
\* declaration stored to, and not the offset of a declaration it shadows.
\* `i32 x = 1; { i32 x = 2; }` returns with one warning.
C12_Shadowing ==
    /\ \A s \in Sites(statements, <<>>) :
          /\ IsShadowing(s) =>
                /\ RejectedAt(s.at) =>
                       genError.message #
                           "Variable " \o s.name \o " is already declared"
                /\ (genState = "returned"
                    \/ \E n \in Offsets : Wrote(s.at, Store(n))) =>
                       Warned(s.name, s.at) = 1
          /\ (IsLookup(s) /\ BoundToShadowing(s) /\ Binding(s).assigned) =>
                \A n \in Offsets :
                    Wrote(s.at, Use(s, n)) =>
                        /\ Wrote(Binding(s).at, Store(n))
                        /\ \A i \in DOMAIN Shadowed(s) :
                              Shadowed(s)[i] # Binding(s) =>
                                  ~Wrote(Shadowed(s)[i].at, Store(n))
    /\ \A i \in DOMAIN genLogged :
          \E s \in Sites(statements, <<>>) :
              IsShadowing(s) /\ genLogged[i] = ShadowWarning(s.name, s.at)
    /\ (Program(<<"i32", "x", "=", "1", ";",
                  "{", "i32", "x", "=", "2", ";", "}">>) /\ Generated) =>
          /\ genState = "returned"
          /\ genLogged = <<ShadowWarning("x", [line |-> 1, column |-> 8])>>

\* a run returned in which a lookup was bound by a shadowing declaration
C12_Witness ==
    /\ genState = "returned"
    /\ \E s \in Sites(statements, <<>>) :
          /\ IsLookup(s)
          /\ BoundToShadowing(s)
          /\ Warned(s.name, Binding(s).at) = 1
          /\ \E n \in Offsets : Wrote(s.at, Use(s, n))


\* a statement or an expression that modifies the variable it names, the
\* variable being a const of a statement list
ModifiesConst(site) ==
    /\ site.type \in {"assignment", "increment", "decrement"}
    /\ ~site.self
    /\ Binding(site) # Null
    /\ Binding(site).kind = "list"
    /\ Binding(site).const

\* C13: const.  A program with an assignment, an increment or a decrement
\* (statement or expression) of a const variable never makes generate return,
\* the generator never writes the modifying instruction, and when it rejects
\* an assignment to a const the message is 'Cannot assign to a constant
\* variable'.
C13_ConstIsNeverModified ==
    \A s \in Sites(statements, <<>>) :
        ModifiesConst(s) =>
            /\ genState # "returned"
            /\ \A n \in Offsets : ~Wrote(s.at, Use(s, n))
            /\ (RejectedAt(s.at) /\ s.type = "assignment") =>
                   genError.message = "Cannot assign to a constant variable"


\* the byte size of a type, as the documentation states it
ClaimedSize(typeIdentifier) ==
    CASE typeIdentifier \in {"i8", "u8"} -> 1
      [] typeIdentifier \in {"i16", "u16"} -> 2
      [] typeIdentifier \in {"i32", "u32"} -> 4

RECURSIVE SizeWithin(_)
\* the sum of the sizes of the declarations among the statements of a list
\* and inside them
SizeWithin(list) ==
    IF list = <<>> THEN 0
    ELSE (IF IsDeclaration(list[1])
          THEN ClaimedSize(list[1].typeIdentifier) ELSE 0)
         + SizeWithin(Flatten(ChildLists(list[1])))
         + SizeWithin(Tail(list))

\* the outermost forEach has just handled a statement without an exception
Handled == genState = "running" /\ genState' = "running"
              /\ genIndex' = genIndex + 1

\* the offsets of the variables of the outermost statement list, in order
TopLevelOffsets == [i \in DOMAIN variables |-> variables[i].offset]

\* C14: offset packing.  A declaration of the outermost list receives as
\* offset the value stackOffset has when it is reached, and stackOffset then
\* grows by the size of its type (i8/u8 1, i16/u16 2, i32/u32 4); a statement
\* that is not a declaration adds no variable to the list and makes
\* stackOffset grow by the sizes of the declarations inside it; `i8 a; i16 b;
\* i32 c;` yields offsets 0, 1, 3.
C14_OffsetPacking ==
    /\ [][Handled =>
            LET statement == statements[genIndex]
            IN  /\ stackOffset' = stackOffset + SizeWithin(<<statement>>)
                /\ IF IsDeclaration(statement)
                   THEN /\ Len(variables') = Len(variables) + 1
                        /\ variables'[Len(variables')].variableIdentifier =
                               statement.variableIdentifier
                        /\ variables'[Len(variables')].offset = stackOffset
                        /\ stackOffset' = stackOffset +
                               ClaimedSize(statement.typeIdentifier)
                        /\ \A n \in 0..stackOffset' :
                               WroteIn(outputBuffer', statement.location,
                                       Store(n)) => n = stackOffset
                   ELSE variables' = variables]_vars
    /\ []((Program(<<"i8", "a", ";", "i16", "b", ";", "i32", "c", ";">>)
           /\ Generated) =>
             (genState = "returned" /\ TopLevelOffsets = <<0, 1, 3>>))

\* generate returned on `i8 a; i16 b; i32 c;`
C14_Witness ==
    /\ Program(<<"i8", "a", ";", "i16", "b", ";", "i32", "c", ";">>)
    /\ genState = "returned"
    /\ TopLevelOffsets = <<0, 1, 3>>
    /\ stackOffset = 7


\* C15: the scope of a for initialization.  `for (i32 i = 0; i < 3; i++) { }`
\* makes generate return; a lookup in the condition, the action or the body
\* of a for statement that the declaration of its initialization binds is not
\* rejected; a lookup after the for statement of a name that only the
\* initialization declares is rejected as not declared.
C15_ForInitializationScope ==
    /\ (Program(<<"for", "(", "i32", "i", "=", "0", ";", "i", "<", "3", ";",
                  "i", "++", ")", "{", "}">>) /\ Generated) =>
          genState = "returned"
    /\ \A s \in Sites(statements, <<>>) :
          /\ (IsLookup(s) /\ Binding(s) # Null /\ Binding(s).kind = "for") =>
                ~RejectedAt(s.at)
          /\ (IsLookup(s) /\ Binding(s) = Null /\ s.name \in s.gone) =>
                /\ genState # "returned"
                /\ RejectedAt(s.at) =>
                       genError.message =
                           "Variable " \o s.name \o " is not declared"


\* where in the buffer the node at `at` wrote `text`
ChunksOf(at, text) ==
    {i \in DOMAIN outputBuffer :
         outputBuffer[i].node = at /\ outputBuffer[i].text = text}

\* the byte position at which chunk i begins: the buffer length when it was
\* written
PositionOf(i) == ByteLength(Take(outputBuffer, i - 1))

\* C16: jump resolution of if.  For every if statement and every condition
\* block i whose body the generator has begun, the instruction written at the
\* end of condition i (just before '; END IF COND') is `JMP IF TRUE n`, n
\* being the byte position at which the body of block i begins.
C16_IfJumpTargets ==
    \A s \in Sites(statements, <<>>) :
        s.type = "if" =>
            LET conditions == ChunksOf(s.at, "; END IF COND\n")
                bodies == ChunksOf(s.at, "; BEGIN IF BLOCK\n")
            IN  \A k \in 1..Cardinality(bodies) :
                    outputBuffer[Nth(conditions, k) - 1].text =
                        "JMP IF TRUE "
                        \o Decimal(PositionOf(Nth(bodies, k))) \o "\n"

\* the positions a while loop that is not a do-while wrote its jumps for:
\* the statement at `at` wrote its condition before its body
IsWhileLoop(site) ==
    /\ site.type = "while"
    /\ ChunksOf(site.at, "; END WHILE BLOCK\n") # {}
    /\ Nth(ChunksOf(site.at, "; BEGIN WHILE COND\n"), 1)
           < Nth(ChunksOf(site.at, "; BEGIN WHILE BLOCK\n"), 1)

\* the trailing jump of the loop: the chunk after '; END WHILE BLOCK'
TrailingJump(site) == Nth(ChunksOf(site.at, "; END WHILE BLOCK\n"), 1) + 1

\* the conditional jump of the loop: the chunk before '; END WHILE COND'
ConditionalJump(site) == Nth(ChunksOf(site.at, "; END WHILE COND\n"), 1) - 1

\* loopEnter: where the evaluation of the condition starts
LoopEnter(site) == PositionOf(Nth(ChunksOf(site.at, "; BEGIN WHILE COND\n"), 1))

\* loopExit: the position immediately after the trailing jump
LoopExit(site) == PositionOf(TrailingJump(site) + 1)

\* the trailing jump of every generated while loop is `JMP loopEnter`
WhileJumpsBack ==
    \A s \in Sites(statements, <<>>) :
        IsWhileLoop(s) =>
            outputBuffer[TrailingJump(s)].text =
                "JMP " \o Decimal(LoopEnter(s)) \o "\n"

\* C17: jump resolution of while.  For every generated while loop that is not
\* a do-while, the trailing jump is `JMP loopEnter` and the conditional jump
\* is `JMP IF FALSE loopExit`.
C17_WhileJumpTargets ==
    /\ WhileJumpsBack
    /\ \A s \in Sites(statements, <<>>) :
          IsWhileLoop(s) =>
              outputBuffer[ConditionalJump(s)].text =
                  "JMP IF FALSE " \o Decimal(LoopExit(s)) \o "\n"


\* the statements the generator does not implement
NotImplemented == {"function-call", "function-declaration", "return", "break"}

\* C18: not implemented.  A program with a function-call statement, a
\* function-declaration, a return or a break never makes generate return an
\* artifact; when the outermost forEach meets such a statement, the exception
\* is InputError 'Not implemented' with the location of the statement; and
\* every 'Not implemented' exception, also the one of a function-call
\* expression, is an InputError.  `foo();` fails so at line 1, column 1.
C18_NotImplemented ==
    /\ \A s \in Sites(statements, <<>>) :
          s.type \in NotImplemented =>
              genState # "returned" /\ assembly = Null
    /\ (genState = "thrown" /\ statements[genIndex].type \in NotImplemented) =>
          genError = InputError("Not implemented",
                                statements[genIndex].location)
    /\ (genState = "thrown" /\ genError.message = "Not implemented") =>
          genError.type = "InputError"
    /\ (Program(<<"foo", "(", ")", ";">>) /\ Generated) =>
          genError = InputError("Not implemented", [line |-> 1, column |-> 1])


(***************************************************************************)
(* The driver (unnamed/part_001): main() and the uncaughtException         *)
(* handler.  mainState is "start" before line 21, then the stage main is   *)
(* in ("tokenize", "parse", "generate"), "log" before line 52, "returned"  *)
(* after main returned, "aborted" after an exception left it.              *)
(***************************************************************************)
Diagnostic(type, message, location) ==
    [type |-> type, message |-> message, location |-> location]

\* lines 21-24
MainInvalidArguments ==
    /\ mainState = "start"
    /\ Len(argv) # 4
    /\ logged' = Append(logged, Diagnostic("ERROR",
                            "Invalid number of arguments", Null))
    /\ mainState' = "returned"
    /\ UNCHANGED <<argv, inputFile, outputFile>>
    /\ UNCHANGED <<lexVars, parseVars, genVars, bufferVars>>

\* lines 32-35
MainNotFound ==
    /\ mainState = "start"
    /\ Len(argv) = 4
    /\ inputFile.kind = "absent"
    /\ logged' = Append(logged, Diagnostic("ERROR",
                            "File \"" \o argv[3] \o "\" not found", Null))
    /\ mainState' = "returned"
    /\ UNCHANGED <<argv, inputFile, outputFile>>
    /\ UNCHANGED <<lexVars, parseVars, genVars, bufferVars>>

\* lines 37-40
MainNotAFile ==
    /\ mainState = "start"
    /\ Len(argv) = 4
    /\ inputFile.kind = "directory"
    /\ logged' = Append(logged, Diagnostic("ERROR",
                            "\"" \o argv[3] \o "\" is not a file", Null))
    /\ mainState' = "returned"
    /\ UNCHANGED <<argv, inputFile, outputFile>>
    /\ UNCHANGED <<lexVars, parseVars, genVars, bufferVars>>

\* lines 42-44: read the file and call tokenize on its content
MainTokenize ==
    /\ mainState = "start"
    /\ Len(argv) = 4
    /\ inputFile.kind = "file"
    /\ source' = inputFile.content
    /\ input' = inputFile.content
    /\ line' = 1
    /\ column' = 1
    /\ tokens' = <<>>
    /\ lexState' = "running"
    /\ mainState' = "tokenize"
    /\ UNCHANGED <<warnings, lexError, spans>>
    /\ UNCHANGED <<argv, inputFile, outputFile, logged>>
    /\ UNCHANGED <<parseVars, genVars, bufferVars>>

\* line 46: tokenize returned; call parse on its tokens
MainParse ==
    /\ mainState = "tokenize"
    /\ lexState = "returned"
    /\ pSource' = tokens
    /\ pTokens' = tokens
    /\ statements' = <<>>
    /\ call' = "parse"
    /\ parseState' = "running"
    /\ mainState' = "parse"
    /\ UNCHANGED <<parseError, callPattern, callResult>>
    /\ UNCHANGED <<argv, inputFile, outputFile, logged>>
    /\ UNCHANGED <<lexVars, genVars, bufferVars>>

\* line 48: parse returned; call generate on its statements
MainGenerate ==
    /\ mainState = "parse"
    /\ parseState = "returned"
    /\ StartGenerate
    /\ mainState' = "generate"
    /\ UNCHANGED <<argv, inputFile, outputFile, logged>>
    /\ UNCHANGED <<lexVars, parseVars, bufferVars>>

\* a writeFileSync that does not wait for generate to return
MainWriteFile_Unchecked ==
    /\ mainState = "generate"
    /\ genState \in {"returned", "thrown"}
    /\ outputFile' = [kind |-> "file", content |-> outputBuffer]
    /\ mainState' = "log"
    /\ UNCHANGED <<argv, inputFile, logged>>
    /\ UNCHANGED <<lexVars, parseVars, genVars, bufferVars>>

\* line 50: generate returned; writeFileSync(outputFile, assembly.code)
MainWriteFile ==
    /\ mainState = "generate"
    /\ genState = "returned"
    /\ outputFile' = [kind |-> "file", content |-> assembly.code]
    /\ mainState' = "log"
    /\ UNCHANGED <<argv, inputFile, logged>>
    /\ UNCHANGED <<lexVars, parseVars, genVars, bufferVars>>

\* line 52: log('INFO', ['Done!'])
MainDone ==
    /\ mainState = "log"
    /\ logged' = Append(logged, Diagnostic("INFO", "Done!", Null))
    /\ mainState' = "returned"
    /\ UNCHANGED <<argv, inputFile, outputFile>>
    /\ UNCHANGED <<lexVars, parseVars, genVars, bufferVars>>

\* the exception that left the stage main is in, NoError if none did
Uncaught ==
    CASE mainState = "tokenize" /\ lexState = "thrown" -> lexError
      [] mainState = "parse" /\ parseState = "thrown" -> parseError
      [] mainState = "generate" /\ genState = "thrown" -> genError
      [] OTHER -> NoError

\* lines 9-16: the handler of process.on('uncaughtException'); what
\* console.error prints is recorded as a diagnostic of type "console.error"
UncaughtException ==
    /\ Uncaught.type # "none"
    /\ logged' =
          IF Uncaught.type = "InputError"
          THEN Append(logged, Diagnostic("ERROR", Uncaught.message,
                                         Uncaught.location))
          ELSE logged \o << Diagnostic("ERROR", "Unexpected error", Null),
                            Diagnostic("console.error", Uncaught.type, Null) >>
    /\ mainState' = "aborted"
    /\ UNCHANGED <<argv, inputFile, outputFile>>
    /\ UNCHANGED <<lexVars, parseVars, genVars, bufferVars>>

(***************************************************************************)
(* The driver: command lines, input files and the specification            *)
(***************************************************************************)
CommandLines ==
    { <<"node", "nitrogen", "in">>,
      <<"node", "nitrogen", "in", "out">>,
      <<"node", "nitrogen", "in", "out", "extra">> }

MainSamples ==
    { <<"i", "3", "2", " ", "x", " ", "=", " ", "1", ";">>,
      <<"i", "8", " ", "a", ";", "\n", "a", " ", "=", " ", "2", ";", "\n">>,
      <<"i", "8", " ", "a", ";", " ", "/", "/", "c", "\n", "a", "=", "1", ".",
        "5", ";">>,
      <<"x", " ", "=", " ", "1", ";">>,
      <<"c", "o", "n", "s", "t", " ", "i", "8", " ", "c", " ", "=", " ", "1",
        ";", "c", " ", "=", " ", "2", ";">>,
      <<"f", "o", "o", "(", ")", ";">>,
      <<"i", "8", " ", "a", " ", "=", " ", "f", "(", ")", ";">>,
      <<"i", "8", " ", "a", " ", "=", " ", "'", "s", "'", ";">>,
      <<"i", "8", " ", "a", ";", "i", "8", " ", "a", ";">>,
      <<"i", "8", " ", "a", " ", "=", ";">>,
      <<";">> }

InputFiles ==
    {[kind |-> "absent"], [kind |-> "directory"]}
        \cup {[kind |-> "file", content |-> text] :
                  text \in Samples \cup MainSamples}

InitMain ==
    /\ InitTokenizerIdle
    /\ InitParserIdle
    /\ InitGeneratorIdle
    /\ InitBufferIdle
    /\ argv \in CommandLines
    /\ inputFile \in InputFiles
    /\ outputFile = Null
    /\ mainState = "start"
    /\ logged = <<>>

NextMain ==
    \/ MainInvalidArguments
    \/ MainNotFound
    \/ MainNotAFile
    \/ MainTokenize
    \/ NextTokenize
    \/ MainParse
    \/ ParseStatementStep
    \/ ParseReturn
    \/ MainGenerate
    \/ GenerateStatement
    \/ GenerateReturn
    \/ MainWriteFile
    \/ MainDone
    \/ UncaughtException

SpecMain == InitMain /\ [][NextMain]_vars

\* Node calls the handler registered at line 9 whenever an exception leaves
\* main(): the handler's step is taken once it is enabled
SpecMainFair == SpecMain /\ WF_vars(UncaughtException)


(***************************************************************************)
(* Properties of the driver                                                *)
(***************************************************************************)
\* a stage was left by an exception
StageFailed ==
    lexState = "thrown" \/ parseState = "thrown" \/ genState = "thrown"

\* the ERROR diagnostics logged so far; the stages themselves log only WARN
\* diagnostics (tokenizer.ts:187, 214, generator.ts:64)
Errors == SelectSeq(logged, LAMBDA d : d.type = "ERROR")

DoneLogged ==
    \E i \in DOMAIN logged : logged[i] = Diagnostic("INFO", "Done!", Null)

Written == outputFile # Null

\* C19: in the driver the first error raised by tokenize, parse or generate
\* aborts the compilation: no later stage is started, the output file is
\* not written and 'Done!' is not logged, neither when the error is raised
\* nor at any later step; the output file is written only after all three
\* stages returned; and the failure ends with exactly one ERROR diagnostic
\* logged (under SpecMainFair every failure reaches that end).
C19_FirstErrorAborts ==
    /\ []( /\ lexState = "thrown" => parseState = "idle" /\ genState = "idle"
           /\ parseState = "thrown" => genState = "idle"
           /\ StageFailed => ~Written /\ ~DoneLogged /\ Len(Errors) <= 1
           /\ Written => /\ lexState = "returned"
                         /\ parseState = "returned"
                         /\ genState = "returned"
           /\ DoneLogged => Written
           /\ mainState = "aborted" => StageFailed /\ Len(Errors) = 1 )
    /\ [][StageFailed =>
             UNCHANGED <<lexVars, parseVars, genVars, outputFile>>]_vars
    /\ (StageFailed ~> (mainState = "aborted" /\ Len(Errors) = 1))

\* `x = 1;` passes tokenize and parse, generate throws, and the handler has
\* logged the one ERROR diagnostic
C19_Witness ==
    /\ mainState = "aborted"
    /\ genState = "thrown"
    /\ lexState = "returned"
    /\ parseState = "returned"
    /\ Len(Errors) = 1
    /\ ~Written


(***************************************************************************)
(* Properties of the token locations                                       *)
(***************************************************************************)
\* C20: every token carries as location the 1-based line and column of its
\* first character in the input: 1 plus the number of line feeds before it,
\* and 1 plus the number of characters between the last line feed before it
\* (or the start of the input) and the token; for every input, block
\* comments over several lines and string literals with line feeds included.
C20_TokenLocations ==
    \A k \in 1..Len(tokens) :
        tokens[k].location = [line |-> TrueLine(TokenSpans[k].start),
                              column |-> TrueColumn(TokenSpans[k].start)]


(***************************************************************************)
(* Properties of the instructions of for and if                            *)
(***************************************************************************)
RECURSIVE StatementsIn(_)
\* the statements of a list and the statements nested in them, at any depth
StatementsIn(list) ==
    UNION { {list[i]}
            \cup UNION { StatementsIn(ChildLists(list[i])[j]) :
                         j \in DOMAIN ChildLists(list[i]) } :
            i \in DOMAIN list }

\* the chunk in which the node at `at` wrote `text`, 0 if it did not
ChunkOf(at, text) ==
    IF ChunksOf(at, text) = {} THEN 0 ELSE Nth(ChunksOf(at, text), 1)

\* the chunks written for the statements of a list and the statements nested
\* in them
ChunksFor(list) ==
    {i \in DOMAIN outputBuffer :
         \E statement \in StatementsIn(list) :
             outputBuffer[i].node = statement.location}

\* a jump written when the condition is false, its target resolved or not
IsExitJump(text) ==
    \/ text = "JMP IF FALSE ??\n"
    \/ \E n \in 0..ByteLength(outputBuffer) :
           text = "JMP IF FALSE " \o Decimal(n) \o "\n"

ForSectionMarks ==
    {"; BEGIN FOR INIT\n", "; END FOR INIT\n", "; BEGIN FOR COND\n",
     "; END FOR COND\n", "; BEGIN FOR BLOCK\n", "; END FOR BLOCK\n",
     "; BEGIN FOR ACTION\n", "; END FOR ACTION\n"}

IfFinished(at) ==
    \E n \in 0..ByteLength(outputBuffer) :
        Wrote(at, "-> FILL ELSE BLOCK JMP: " \o Decimal(n) \o "\n")

\* ifExit: the position at which the instructions of the if statement at
\* `at` end, right after the section of its last body
IfExit(at) ==
    LET ends == ChunksOf(at, "; END IF BLOCK\n")
                    \cup ChunksOf(at, "; END ELSE BLOCK\n")
    IN  PositionOf(Nth(ends, Cardinality(ends)) + 1)

\* chunk i was written for the node at `at` and is `JMP n`
IsJumpTo(i, at, n) ==
    /\ i \in DOMAIN outputBuffer
    /\ outputBuffer[i].node = at
    /\ outputBuffer[i].text = "JMP " \o Decimal(n) \o "\n"

\* C22: no fall-through between the bodies of an if.  For every generated if
\* statement with several condition blocks or an else block, the body of
\* every condition block ends with an unconditional jump to the end of the
\* whole if statement (written as the last instruction of the body section
\* or right after it).
C22_IfBodiesJumpToExit ==
    \A f \in StatementsIn(statements) :
        ( /\ f.type = "if"
          /\ Len(f.blocks) > 1 \/ f.elseBlock # Null
          /\ IfFinished(f.location) ) =>
            \A k \in ChunksOf(f.location, "; END IF BLOCK\n") :
                \/ IsJumpTo(k - 1, f.location, IfExit(f.location))
                \/ IsJumpTo(k + 1, f.location, IfExit(f.location))


(***************************************************************************)
(* Properties of the for statement in parse                                *)
(***************************************************************************)
PrimitiveStatementTypes ==
    {"declaration", "declaration-with-assignment", "assignment", "increment",
     "decrement", "function-call"}

\* the first `;` of the tokens after position i, 0 if there is none
NextSemicolon(i) ==
    LET at == {j \in (i + 1)..Len(pSource) : IsSymbol(j, ";")}
    IN  IF at = {} THEN 0 ELSE CHOOSE j \in at : \A k \in at : j <= k

\* the tokens begin with the header of a for statement of which a part is
\* empty: the initialization, the condition or the action
EmptyForHeader ==
    /\ IsKeyword(1, "for")
    /\ IsSymbol(2, "(")
    /\ \/ IsSymbol(3, ";")
       \/ NextSemicolon(2) > 0 /\ IsSymbol(NextSemicolon(2) + 1, ";")
       \/ /\ NextSemicolon(2) > 0
          /\ NextSemicolon(NextSemicolon(2)) > 0
          /\ IsSymbol(NextSemicolon(NextSemicolon(2)) + 1, ")")

\* C23: the header of a for statement.  Every for node in the statements that
\* parse has produced has a non-null initialization and a non-null action,
\* both primitive statements, and a non-null condition; and tokens that
\* begin with a for header with an empty part produce no statement: parse
\* raises InputError 'Invalid statement' or 'Invalid expression'.
C23_ForHeader ==
    /\ \A f \in StatementsIn(statements) :
           f.type = "for" =>
               /\ f.initialization # Null
               /\ f.initialization.type \in PrimitiveStatementTypes
               /\ f.condition # Null
               /\ f.action # Null
               /\ f.action.type \in PrimitiveStatementTypes
    /\ EmptyForHeader =>
           /\ statements = <<>>
           /\ parseState \in {"running", "thrown"}
           /\ parseState = "thrown" =>
                  /\ parseError.type = "InputError"
                  /\ parseError.message \in {"Invalid statement",
                                             "Invalid expression"}

\* `for (;;) { }` has been rejected with 'Invalid statement' at the first `;`
C23_Witness ==
    /\ Program(<<"for", "(", ";", ";", ")", "{", "}">>)
    /\ parseState = "thrown"
    /\ parseError = InputError("Invalid statement", [line |-> 1, column |-> 3])


(***************************************************************************)
(* Properties of declarations in generate                                  *)
(***************************************************************************)
ClaimedTypes == {"i8", "u8", "i16", "u16", "i32", "u32"}

RECURSIVE Calls(_)
\* an expression holds a function call
Calls(expression) ==
    CASE expression.type = "function-call" -> TRUE
      [] expression.type = "sub-expression" -> Calls(expression.expression)
      [] expression.type \in BinaryExpressionTypes ->
             Calls(expression.left) \/ Calls(expression.right)
      [] OTHER -> FALSE

\* the names of the variables of the outermost list
TopLevelNames ==
    {variables[i].variableIdentifier : i \in DOMAIN variables}

\* the messages of the conditions a declaration of the outermost list fails
DeclarationErrors(statement) ==
    (IF statement.typeIdentifier \notin ClaimedTypes
     THEN {"Invalid type identifier: " \o statement.typeIdentifier} ELSE {})
    \cup (IF statement.variableIdentifier \in TopLevelNames
          THEN {"Variable " \o statement.variableIdentifier
                \o " is already declared"} ELSE {})
    \cup (IF statement.type = "declaration" /\ statement.const
          THEN {"Cannot declare a constant without an assignment"} ELSE {})

\* the initializer of a declaration of the outermost list cannot be
\* generated: it reads a name that is not declared or calls a function
InitializerFails(statement) ==
    /\ statement.type = "declaration-with-assignment"
    /\ \/ Calls(statement.assignment)
       \/ \E r \in References(statement.assignment) :
              r.name \notin TopLevelNames \cup {statement.variableIdentifier}

\* the outermost forEach takes the declaration statements[genIndex]
DeclarationStep ==
    /\ genState = "running"
    /\ genIndex <= Len(statements)
    /\ IsDeclaration(statements[genIndex])
    /\ genState' # "running" \/ genIndex' # genIndex

\* the step accepted the declaration: the forEach goes on with the variable
\* added to the list
Accepted ==
    /\ genState' = "running"
    /\ genIndex' = genIndex + 1
    /\ Len(variables') = Len(variables) + 1
    /\ variables'[Len(variables')].variableIdentifier =
           statements[genIndex].variableIdentifier

\* the step rejected the declaration for a condition it fails, adding no
\* variable and leaving stackOffset as it was
Rejected ==
    /\ genState' = "thrown"
    /\ genError'.type = "InputError"
    /\ genError'.location = statements[genIndex].location
    /\ genError'.message \in DeclarationErrors(statements[genIndex])
    /\ variables' = variables
    /\ stackOffset' = stackOffset

\* a declaration nested anywhere in the program whose type is not one of the
\* six or that is const without an assignment keeps generate from returning
InvalidDeclarationsFail ==
    \A d \in StatementsIn(statements) :
        ( /\ IsDeclaration(d)
          /\ \/ d.typeIdentifier \notin ClaimedTypes
             \/ d.type = "declaration" /\ d.const ) =>
            genState # "returned"

\* the statement of C24 as it is written: accepted exactly when the three
\* conditions hold, rejected for the failed condition otherwise
C24_DeclarationChecks_AsStated ==
    [][DeclarationStep =>
          IF DeclarationErrors(statements[genIndex]) = {}
          THEN Accepted ELSE ~Accepted /\ Rejected]_vars

\* C24: a declaration of the outermost list is accepted exactly when its
\* type is one of i8, u8, i16, u16, i32, u32, its name is not in the list
\* already, it is not const without an assignment, and its initializer, if
\* it has one, can be generated; when one of the first three conditions
\* fails, generate raises the InputError of that condition at the
\* declaration, adds no variable and leaves stackOffset unchanged; when only
\* the initializer fails, the exception is the initializer's.
C24_DeclarationChecks ==
    /\ [][DeclarationStep =>
            LET statement == statements[genIndex]
            IN  IF DeclarationErrors(statement) # {}
                THEN ~Accepted /\ Rejected
                ELSE IF InitializerFails(statement)
                THEN /\ ~Accepted
                     /\ genState' = "thrown"
                     /\ genError'.type = "InputError" =>
                            genError'.location # statement.location
                     /\ stackOffset' = stackOffset
                ELSE Accepted]_vars
    /\ []InvalidDeclarationsFail

\* `i8 a; const i8 a;` has been rejected at the second declaration, for one of
\* the two conditions it fails, with one variable in the list
C24_Witness ==
    /\ Program(<<"i8", "a", ";", "const", "i8", "a", ";">>)
    /\ genState = "thrown"
    /\ genError.message \in
           {"Variable a is already declared",
            "Cannot declare a constant without an assignment"}
    /\ Len(variables) = 1
    /\ stackOffset = 1


(***************************************************************************)
(* Properties of the stack offsets                                         *)
(***************************************************************************)
\* the byte range of a declared variable: the declaration at `at` was given
\* offset `offset`; chunk is where the declaration stored to it, 0 for a
\* variable read from the list of the outermost statements
Range(at, offset, bytes, chunk) ==
    [at |-> at, offset |-> offset, size |-> bytes, chunk |-> chunk]

\* the ranges of the declarations with an initializer, anywhere in the
\* program, read from the `> STACK[n]` they wrote
StoredRanges ==
    UNION { { Range(d.location, n, ClaimedSize(d.typeIdentifier),
                    ChunkOf(d.location, Store(n))) :
              n \in {k \in Offsets : Wrote(d.location, Store(k))} } :
            d \in {e \in StatementsIn(statements) : IsDeclaration(e)} }

\* the ranges of the variables of the outermost list: variable k is the
\* k-th declaration of the outermost statements
ListedRanges ==
    { Range(DeclarationsOf(statements, "list")[k].at, variables[k].offset,
            ClaimedSize(variables[k].typeIdentifier), 0) :
      k \in DOMAIN variables }

DeclaredRanges == StoredRanges \cup ListedRanges

Disjoint(r, q) ==
    r.offset + r.size <= q.offset \/ q.offset + q.size <= r.offset

\* C25: stackOffset never decreases during a call of generate; one
\* declaration has one offset; the byte ranges [offset, offset + size) of
\* any two declared variables are disjoint, whatever scopes declare them; a
\* declaration generated after another one lies beyond it; and every range
\* ends at or below stackOffset.
C25_DisjointRanges ==
    /\ [][genState = "running" => stackOffset' >= stackOffset]_vars
    /\ [](\A r, q \in DeclaredRanges :
             /\ r.offset >= 0
             /\ r.offset + r.size <= stackOffset
                    \/ (genState = "thrown" /\ r.offset = stackOffset)
             /\ r.at = q.at => r.offset = q.offset
             /\ r.at # q.at => Disjoint(r, q)
             /\ (r.chunk > 0 /\ r.chunk < q.chunk) =>
                    r.offset + r.size <= q.offset)

\* `{ u8 a = 2; a = 3; } i16 b = 1;` has been generated: b lies beyond the a
\* of the scope that has ended
C25_Witness ==
    /\ Program(<<"{", "u8", "a", "=", "2", ";", "a", "=", "3", ";", "}",
                 "i16", "b", "=", "1", ";">>)
    /\ genState = "returned"
    /\ Wrote([line |-> 1, column |-> 3], Store(0))
    /\ variables[1].offset = 1
    /\ stackOffset = 3


(***************************************************************************)
(* DynamicBuffer (generator.ts lines 299-326), byte by byte.  A Buffer is a *)
(* sequence of bytes.                                                      *)
(***************************************************************************)
chunkSize == 256

\* Buffer.alloc(n): n zero bytes
Alloc(n) == [i \in 1..n |-> 0]

\* a write that grows the backing buffer by one chunk at most
Grow_Once(bytes, needed) ==
    IF Len(bytes) < needed THEN bytes \o Alloc(chunkSize) ELSE bytes

RECURSIVE Grow(_, _)
\* the while loop of write (lines 311-313): one more chunk of zero bytes as
\* long as the backing buffer is shorter than needed
Grow(bytes, needed) ==
    IF Len(bytes) < needed
    THEN Grow(bytes \o Alloc(chunkSize), needed)
    ELSE bytes

\* buffer.copy(target, targetStart, 0, buffer.length) (line 315): the bytes
\* that fit into the target are copied
Copy(bytes, target, targetStart) ==
    [i \in 1..Len(target) |->
        IF i > targetStart /\ i <= targetStart + Len(bytes)
        THEN bytes[i - targetStart]
        ELSE target[i]]

\* get buffer (lines 319-321): subarray clamps its end to the length of data
buffer == SubSeq(data, 1, IF size < Len(data) THEN size ELSE Len(data))

\* get length (lines 323-325)
length == size

\* the constructor (lines 305-308)
NewDynamicBuffer ==
    /\ data = Alloc(chunkSize)
    /\ size = 0

\* write(buffer) (lines 310-317)
write(bytes) ==
    /\ data' = Copy(bytes, Grow(data, size + Len(bytes)), size)
    /\ size' = size + Len(bytes)

(***************************************************************************)
(* DynamicBuffer: the buffers written by the model and the specification   *)
(***************************************************************************)
MaxWrites == 3

\* n bytes that differ from their neighbours, the first one being `first`
Bytes(n, first) == [i \in 1..n |-> (first + i - 1) % 256]

\* nothing, one byte, one byte less than a chunk, one byte more than a
\* chunk, more than two chunks
Buffers ==
    {Bytes(0, 0), Bytes(1, 65), Bytes(chunkSize - 1, 1),
     Bytes(chunkSize + 1, 2), Bytes(2 * chunkSize + 88, 3)}

InitDynamicBuffer ==
    /\ InitTokenizerIdle
    /\ InitParserIdle
    /\ InitGeneratorIdle
    /\ InitNoDriver
    /\ NewDynamicBuffer
    /\ written = <<>>

DynamicBufferWrite ==
    /\ Len(written) < MaxWrites
    /\ \E bytes \in Buffers :
           /\ write(bytes)
           /\ written' = Append(written, bytes)
    /\ UNCHANGED <<lexVars, parseVars, genVars, mainVars>>

NextDynamicBuffer == DynamicBufferWrite

SpecDynamicBuffer == InitDynamicBuffer /\ [][NextDynamicBuffer]_vars

(***************************************************************************)
(* Properties of DynamicBuffer                                             *)
(***************************************************************************)
RECURSIVE TotalLength(_)
\* the sum of the lengths of the buffers of a sequence
TotalLength(buffers) ==
    IF buffers = <<>> THEN 0
    ELSE Len(buffers[1]) + TotalLength(Tail(buffers))

\* C26: the output buffer is append-only.  After any sequence of write
\* calls, length is the sum of the lengths of the written buffers and buffer
\* is their concatenation in call order; the backing capacity is at least
\* length and a whole number of 256-byte chunks; and no write changes a byte
\* that was written before it, whether or not the capacity grows.
C26_AppendOnly ==
    /\ [](/\ length = TotalLength(written)
          /\ buffer = Flatten(written)
          /\ Len(data) >= length
          /\ Len(data) % 256 = 0)
    /\ [][/\ size' >= size
          /\ Len(data') >= Len(data)
          /\ \A i \in 1..size : data'[i] = data[i]]_vars

\* three writes have made the capacity grow twice, the second time by more
\* than one chunk
C26_Witness ==
    /\ written = <<Bytes(chunkSize - 1, 1), Bytes(chunkSize + 1, 2),
                   Bytes(2 * chunkSize + 88, 3)>>
    /\ length = 1112
    /\ Len(data) = 1280
    /\ buffer[255] = 255 /\ buffer[256] = 2 /\ buffer[513] = 3


(***************************************************************************)
(* Termination of tokenize and parse                                       *)
(***************************************************************************)
\* C27: tokenize terminates.  Every iteration of its main loop removes at
\* least one character from the remaining input or raises InputError; the
\* loop is left with the tokens only when the input is empty; and every call
\* ends: it returns or raises.
C27_TokenizeTerminates ==
    /\ [][lexState = "running" =>
             \/ Len(input') < Len(input) /\ lexState' = "running"
             \/ /\ lexState' = "thrown"
                /\ lexError'.type = "InputError"
             \/ /\ lexState' = "returned"
                /\ input = <<>>]_vars
    /\ [](lexState = "running" => Len(spans) <= Len(source) - Len(input))
    /\ (lexState = "running" ~> lexState \in {"returned", "thrown"})

\* tokenize has returned after three iterations or more
C27_Witness ==
    /\ lexState = "returned"
    /\ input = <<>>
    /\ Len(spans) >= 3


\* the tokens parse has consumed
Consumed == Len(pSource) - Len(pTokens)

\* how many more `open` than `close` symbols the tokens a..b hold
Depth(a, b, open, close) ==
    Cardinality({i \in a..b : IsSymbol(i, open)})
        - Cardinality({i \in a..b : IsSymbol(i, close)})

\* token k may end a statement that begins at token a: it is a `;` or a `}`
\* outside every parenthesis and brace opened since a
MayEnd(a, k) ==
    /\ IsSymbol(k, ";") \/ IsSymbol(k, "}")
    /\ Depth(a, k, "(", ")") = 0
    /\ Depth(a, k, "{", "}") = 0

\* the statement that begins at token a goes on after token k: an `else`
\* follows a block of an if statement, or k closes the body of a do-while
GoesOn(a, k) ==
    \/ IsKeyword(a, "if") /\ IsKeyword(k + 1, "else")
    \/ IsKeyword(a, "do") /\ IsSymbol(k, "}")

\* the last token of the statement that begins at token a, 0 if it has no end
SpanEnd(a) ==
    LET ends == {k \in a..Len(pSource) : MayEnd(a, k) /\ ~GoesOn(a, k)}
    IN  IF ends = {} THEN 0 ELSE CHOOSE k \in ends : \A j \in ends : k <= j

\* the first tokens of the statements that the tokens from a on hold
RECURSIVE SpanStarts(_)
SpanStarts(a) ==
    IF a > Len(pSource) THEN <<>>
    ELSE IF SpanEnd(a) = 0 THEN <<a>>
    ELSE <<a>> \o SpanStarts(SpanEnd(a) + 1)

\* the loop of parse has pushed a statement
Pushed == parseState = "running" /\ statements' # statements

\* C28: parse terminates and consumes its input exactly.  Every statement
\* the loop of parse pushes took at least one token and exactly the tokens it
\* spans: they begin at the first token not yet consumed and stop at a `;`
\* or `}` that closes everything opened since, every earlier such token
\* being one after which the statement goes on, and the statement's
\* location is that of one of them.  Statements are pushed in source order,
\* one per iteration.  When parse returns, all tokens are consumed and the
\* statements are those the token sequence holds, each one standing in its
\* own span; `for (i = 0; i < 3; i++) { x--; } x = 1;` gives two
\* statements, the terminators of the header counted once.  Every call ends.
C28_ParseConsumesExactly ==
    /\ [][Pushed =>
             LET first == Consumed + 1
                 last == Len(pSource) - Len(pTokens')
             IN  /\ Len(statements') = Len(statements) + 1
                 /\ SubSeq(statements', 1, Len(statements)) = statements
                 /\ Len(pTokens') < Len(pTokens)
                 /\ pTokens' = Drop(pSource, last)
                 /\ MayEnd(first, last)
                 /\ \A k \in first..(last - 1) :
                        MayEnd(first, k) => GoesOn(first, k)
                 /\ \E i \in first..last :
                        pSource[i].location =
                            statements'[Len(statements')].location]_vars
    /\ [](/\ pTokens = Drop(pSource, Consumed)
          /\ (call = "parse" /\ parseState = "returned") =>
                 /\ Consumed = Len(pSource)
                 /\ Len(statements) = Len(SpanStarts(1))
                 /\ \A i \in DOMAIN statements :
                        \E k \in SpanStarts(1)[i]..SpanEnd(SpanStarts(1)[i]) :
                            pSource[k].location = statements[i].location
          /\ \A i, j \in DOMAIN statements :
                 i < j => statements[i].location.column
                              < statements[j].location.column
          /\ (/\ Program(<<"for", "(", "i", "=", "0", ";", "i", "<", "3", ";",
                           "i", "++", ")", "{", "x", "--", ";", "}",
                           "x", "=", "1", ";">>)
              /\ parseState # "running") =>
                 /\ parseState = "returned"
                 /\ Len(statements) = 2
                 /\ statements[2].location.column = 19)
    /\ ((call = "parse" /\ parseState = "running")
            ~> parseState \in {"returned", "thrown"})

\* parse has returned the for statement and the assignment after it
C28_Witness ==
    /\ Program(<<"for", "(", "i", "=", "0", ";", "i", "<", "3", ";",
                 "i", "++", ")", "{", "x", "--", ";", "}",
                 "x", "=", "1", ";">>)
    /\ parseState = "returned"
    /\ Len(statements) = 2
    /\ statements[1].type = "for"
    /\ pTokens = <<>>



(***************************************************************************)
(* Properties of the initializer of a declaration.                         *)
(***************************************************************************)
\* the reads of the declared name inside the initializer of its declaration
SelfReads ==
    {s \in Sites(statements, <<>>) :
         s.expression /\ s.self /\ s.type = "variable"}

\* the declarations with an initializer
Initialized ==
    {s \in Sites(statements, <<>>) :
         ~s.expression /\ s.type = "declaration-with-assignment"}

\* the declaration whose initializer holds the read: the nearest one of
\* that name before it
DeclarationOf(read) ==
    CHOOSE d \in Initialized :
        /\ d.name = read.name
        /\ d.at.column < read.at.column
        /\ \A e \in Initialized :
               (e.name = read.name /\ e.at.column < read.at.column)
                   => e.at.column <= d.at.column

\* the chunk the generator wrote for the node at `at` is `text`, and the next
\* chunk continues with the store of the declaration at `by`
ReadThenStored(at, text, by, store) ==
    \E i \in DOMAIN outputBuffer :
        /\ outputBuffer[i].node = at
        /\ outputBuffer[i].text = text
        /\ \E j \in (i + 1)..Len(outputBuffer) :
               /\ outputBuffer[j].node = by
               /\ outputBuffer[j].text = store

\* C29: the declared variable is bound when its initializer is generated.
\* A read of the declared name inside the initializer is never rejected as
\* not declared; once the declaration has stored its value to STACK[k], the
\* read has loaded STACK[k], the same k, before the store, and from no other
\* offset, also not from the offset of another declaration of that name;
\* and `i32 x = x;` with no earlier x is generated as `< STACK[0]` followed
\* by `> STACK[0]`.
C29_InitializerSeesDeclared ==
    /\ \A r \in SelfReads :
           LET d == DeclarationOf(r)
           IN  /\ ~RejectedAt(r.at)
               /\ genState = "returned" => \E k \in Offsets : Wrote(d.at, Store(k))
               /\ \A k \in Offsets :
                      Wrote(d.at, Store(k)) =>
                          /\ ReadThenStored(r.at, Use(r, k), d.at, Store(k))
                          /\ \A n \in Offsets \ {k} : ~Wrote(r.at, Use(r, n))
                          /\ \A e \in Initialized \ {d} :
                                 e.name = d.name => ~Wrote(e.at, Store(k))
    /\ (Program(<<"i32", "x", "=", "x", ";">>) /\ Generated) =>
           /\ genState = "returned"
           /\ Len(outputBuffer) = 3
           /\ outputBuffer[2].text = "< STACK[0]\n"
           /\ outputBuffer[3].text = "> STACK[0]\n"

\* `i32 x = 1; { i32 x = x; }` is generated: the inner initializer reads the
\* inner x at offset 4, not the outer x at offset 0
C29_Witness ==
    /\ Program(<<"i32", "x", "=", "1", ";", "{", "i32", "x", "=", "x", ";", "}">>)
    /\ genState = "returned"
    /\ \E r \in SelfReads :
           /\ Wrote(r.at, "< STACK[4]\n")
           /\ Wrote(DeclarationOf(r).at, "> STACK[4]\n")



(***************************************************************************)
(* Properties of line comments in tokenize.                                *)
(***************************************************************************)
\* the tokenizer stood at `//` when it began the span: a line comment begins
BeginsLineComment(sp) ==
    /\ sp.start < Len(source)
    /\ source[sp.start] = "/"
    /\ source[sp.start + 1] = "/"

\* the last character of the line that holds position i: the line feed that
\* ends it, or the end of the input
EndOfLine(i) ==
    LET feeds == {k \in i..Len(source) : source[k] = "\n"}
    IN  IF feeds = {} THEN Len(source)
        ELSE CHOOSE k \in feeds : \A j \in feeds : k <= j

\* C30: no token is produced from the text of a line comment.  Where the
\* tokenizer stands at `//`, it produces no token from there to the end of
\* that line, be the end a line feed or the end of the input.
C30_LineCommentsSkipped ==
    \A i \in DOMAIN spans :
        BeginsLineComment(spans[i]) =>
            \A j \in DOMAIN spans :
                spans[j].kind = "token" =>
                    ~(spans[j].start \in spans[i].start..EndOfLine(spans[i].start))

====
